---- MODULE Spec2Model ----
(***************************************************************************)
(* A model of the components of react-solidlike.  Await, Visible and       *)
(* Timeout are stateful function components: the hook state is the         *)
(* committed state of the last render pass, setState calls are queued and  *)
(* applied by the next render pass, and passive effects (useEffect) run    *)
(* after the render pass that scheduled them and before the next one.      *)
(* For, Switch, Show and QueryBoundary are functions of their props: a     *)
(* render pass calls the function and keeps what it returned and which     *)
(* render functions it invoked.                                            *)
(***************************************************************************)
EXTENDS Integers, Sequences, FiniteSets, TLC

VARIABLES
    aw_phase,          \* "init" | "mounted" | "unmounted"
    aw_promise,        \* the promise prop of the last render pass
    aw_errorFn,        \* typeof error === "function"
    aw_childrenFn,     \* typeof children === "function"
    aw_state,          \* the committed PromiseState (useState)
    aw_queue,          \* setState calls not yet applied by a render pass
    aw_effectPending,  \* the [promise] effect (or its cleanup) is scheduled
    aw_cleanup,        \* the effect instance whose cleanup is registered, 0 if none
    aw_effects,        \* the effect instances run so far, each with its cancelled flag
    aw_settled,        \* for each promise: "pending" | "fulfilled" | "rejected"
    aw_rendered,       \* what the last render pass returned
    vs_phase,          \* "init" | "mounted" | "unmounted"
    vs_env,            \* "server" | "browser" | "native" (no IntersectionObserver)
    vs_props,          \* once, rootMargin, threshold, onVisibilityChange of the last render pass
    vs_isVisible,      \* committed useState values
    vs_hasBeenVisible,
    vs_isClient,
    vs_queue,          \* setState calls not yet applied by a render pass
    vs_deps,           \* the dependency list of the observer effect at the last render pass
    vs_pendingEffects, \* the effects scheduled by the last render pass
    vs_ref,            \* ref.current is the anchor element
    vs_observers,      \* the IntersectionObservers the instance has created, in order
    vs_cleanup,        \* the observer the registered cleanup disconnects, 0 if none
    vs_notified,       \* how many notifications with an entry the instance has processed
    vs_lastNotified,   \* isIntersecting of the most recent one, "none" if none
    vs_everHit,        \* an intersecting notification has been processed
    vs_frozen,         \* an observer created with once=true has disconnected itself
    vs_onceAlways,     \* once was true in every render pass so far
    vs_calls,          \* how many times an onVisibilityChange has been invoked
    vs_lastCall,       \* the function and argument of the most recent invocation
    vs_rendered,       \* what the last render pass returned
    tm_phase,          \* "init" | "mounted" | "unmounted"
    tm_props,          \* ms, mode, onTimeout of the last render pass
    tm_mode0,          \* the mode of the first render pass
    tm_ready,          \* the committed useState value
    tm_toggles,        \* setReady((prev) => !prev) calls not yet applied by a render pass
    tm_effectPending,  \* the [ms, onTimeout] effect (or its cleanup) is scheduled
    tm_timers,         \* the timers the instance has set, in order
    tm_cleanup,        \* the timer the registered cleanup clears, 0 if none
    tm_fired,          \* how many timers of the instance have fired
    tm_calls,          \* how many times an onTimeout has been invoked
    tm_rendered,       \* what the last render pass returned
    fo_each,           \* the caller's array, as it is after the render pass of For
    fo_props,          \* each, children, keyExtractor, fallback, wrapper, reverse as passed
    fo_calls,          \* the invocations of children, in order: <<item, index, array>>
    fo_keyCalls,       \* the invocations of keyExtractor, in order: <<item, index>>
    fo_result,         \* what For returned
    sw_props,          \* children (the declared entries) and fallback of Switch
    sw_calls,          \* the invocations of function payloads and of a function fallback
    sw_result,         \* what Switch returned
    sh_props,          \* when, children, fallback of Show
    sh_calls,          \* the invocations of a function children
    sh_result,         \* what Show returned
    qb_props,          \* the props of QueryBoundary
    qb_calls,          \* the invocations of function props, in order
    qb_result,         \* what QueryBoundary returned
    rp_props,          \* times, children, wrapper of Repeat, and the props it does not read
    rp_calls,          \* the invocations of children, in order: <<index>>
    rp_result,         \* what Repeat returned
    sp_props,          \* string, separator, keepSeparator and the props Split hands on to For
    sp_parts,          \* what splitString returned
    sp_calls,          \* the invocations of children by For, in order
    sp_result,         \* what Split returned
    dy_props,          \* component and the names of the other props given to Dynamic
    dy_calls,          \* the invocations of a fallback function
    dy_result,         \* what Dynamic returned
    co_phase,          \* "init" | "server" | "mounted" | "unmounted"
    co_props,          \* children and fallback of the last render pass
    co_isClient,       \* the committed useState value
    co_queued,         \* setIsClient(true) is not yet applied by a render pass
    co_effectPending,  \* the mount effect is scheduled
    co_effectRan,      \* the mount effect has run
    co_passes,         \* how many render passes there have been
    co_calls,          \* what the last render pass invoked
    co_rendered        \* what the last render pass returned

awVars == <<aw_phase, aw_promise, aw_errorFn, aw_childrenFn, aw_state, aw_queue,
            aw_effectPending, aw_cleanup, aw_effects, aw_settled, aw_rendered>>

vsVars == <<vs_phase, vs_env, vs_props, vs_isVisible, vs_hasBeenVisible, vs_isClient,
            vs_queue, vs_deps, vs_pendingEffects, vs_ref, vs_observers, vs_cleanup,
            vs_notified, vs_lastNotified, vs_everHit, vs_frozen,
            vs_onceAlways, vs_calls, vs_lastCall, vs_rendered>>

tmVars == <<tm_phase, tm_props, tm_mode0, tm_ready, tm_toggles, tm_effectPending,
            tm_timers, tm_cleanup, tm_fired, tm_calls, tm_rendered>>

foVars == <<fo_each, fo_props, fo_calls, fo_keyCalls, fo_result>>

swVars == <<sw_props, sw_calls, sw_result>>

shVars == <<sh_props, sh_calls, sh_result>>

qbVars == <<qb_props, qb_calls, qb_result>>

rpVars == <<rp_props, rp_calls, rp_result>>

spVars == <<sp_props, sp_parts, sp_calls, sp_result>>

dyVars == <<dy_props, dy_calls, dy_result>>

coVars == <<co_phase, co_props, co_isClient, co_queued, co_effectPending, co_effectRan,
            co_passes, co_calls, co_rendered>>

vars == <<awVars, vsVars, tmVars, foVars, swVars, shVars, qbVars, rpVars, spVars, dyVars, coVars>>

\* the other components' instances, which a step of one component leaves alone
awOthers == <<vsVars, tmVars, foVars, swVars, shVars, qbVars, rpVars, spVars, dyVars, coVars>>
vsOthers == <<awVars, tmVars, foVars, swVars, shVars, qbVars, rpVars, spVars, dyVars, coVars>>
tmOthers == <<awVars, vsVars, foVars, swVars, shVars, qbVars, rpVars, spVars, dyVars, coVars>>
coOthers == <<awVars, vsVars, tmVars, foVars, swVars, shVars, qbVars, rpVars, spVars, dyVars>>

----------------------------------------------------------------------------
(* Bounds *)

\* how many times the [promise] effect of one Await instance may run
MaxEffects == 3

\* how many observers one Visible instance may create
MaxObservers == 2

\* how many notifications one Visible instance may process
MaxNotify == 2

\* how many timers one Timeout instance may set
MaxTimers == 2

\* the longest array passed to For
MaxLen == 3

\* how many entries a Switch may declare
MaxEntries == 3

\* the largest times passed to Repeat
MaxTimes == 3

\* the longest string and the longest literal separator passed to Split
MaxStr == 3
MaxSep == 2

\* the most render passes of one ClientOnly
MaxPasses == 4

----------------------------------------------------------------------------
(* Await *)

Promises == {"P1", "P2"}
NonPromises == {"V1", "V2"}
Inputs == Promises \cup NonPromises

NoPayload == <<"none", "none">>
\* the value a promise fulfils with, the reason it rejects with, a plain input
Val(p) == <<"value", p>>
Err(p) == <<"reason", p>>
Raw(v) == <<"raw", v>>

\* promise instanceof Promise
IsPromise(x) == x \in Promises

Pending(src) == [status |-> "pending", payload |-> NoPayload, src |-> src]
Fulfilled(v, src) == [status |-> "fulfilled", payload |-> v, src |-> src]
Rejected(e, src) == [status |-> "rejected", payload |-> e, src |-> src]

\* useState initialiser
AwaitInitialState(promise) ==
    IF ~IsPromise(promise) THEN Fulfilled(Raw(promise), 0) ELSE Pending(0)

\* the return statements of Await
AwaitView(state, errorFn, childrenFn) ==
    IF state.status = "pending" THEN [kind |-> "loading", arg |-> NoPayload]
    ELSE IF state.status = "rejected"
         THEN [kind |-> "error", arg |-> IF errorFn THEN state.payload ELSE NoPayload]
         ELSE [kind |-> "children", arg |-> IF childrenFn THEN state.payload ELSE NoPayload]

\* a render pass applies the queued setState calls in order; each is a plain value
AwaitReduce(state, queue) ==
    IF queue = <<>> THEN state ELSE queue[Len(queue)]

\* setState: queued for the next render pass; dropped once the instance is unmounted
AwaitSetState(queue, s) ==
    IF aw_phase = "mounted" THEN Append(queue, s) ELSE queue

\* an effect without a dependency list: it runs again after every render pass
AwaitDepsChanged_Always(old, new) == TRUE

\* the dependency list [promise], compared with Object.is
AwaitDepsChanged(old, new) == old # new

\* the input is replaced, or the instance torn down, while the promise of the
\* registered effect instance is unsettled
AwaitMarkSuperseded(effects) ==
    [i \in DOMAIN effects |->
        IF i = aw_cleanup /\ aw_settled[effects[i].promise] = "pending"
        THEN [effects[i] EXCEPT !.superseded = TRUE]
        ELSE effects[i]]

AwaitMount(p, errorFn, childrenFn) ==
    /\ aw_phase = "init"
    /\ aw_phase' = "mounted"
    /\ aw_promise' = p
    /\ aw_errorFn' = errorFn
    /\ aw_childrenFn' = childrenFn
    /\ aw_state' = AwaitInitialState(p)
    /\ aw_rendered' = AwaitView(aw_state', errorFn, childrenFn)
    /\ aw_effectPending' = TRUE
    /\ UNCHANGED <<aw_queue, aw_cleanup, aw_effects, aw_settled>>
    /\ UNCHANGED awOthers

\* a render pass with promise prop p (a parent re-render, or the re-render a
\* setState scheduled when p is the current prop)
AwaitRender(p) ==
    /\ aw_phase = "mounted"
    /\ ~aw_effectPending
    /\ AwaitDepsChanged(aw_promise, p) => Len(aw_effects) < MaxEffects
    /\ aw_promise' = p
    /\ aw_state' = AwaitReduce(aw_state, aw_queue)
    /\ aw_queue' = <<>>
    /\ aw_rendered' = AwaitView(aw_state', aw_errorFn, aw_childrenFn)
    /\ aw_effectPending' = AwaitDepsChanged(aw_promise, p)
    /\ aw_effects' = IF AwaitDepsChanged(aw_promise, p)
                     THEN AwaitMarkSuperseded(aw_effects) ELSE aw_effects
    /\ UNCHANGED <<aw_phase, aw_errorFn, aw_childrenFn, aw_cleanup, aw_settled>>
    /\ UNCHANGED awOthers

\* return () => { cancelled = true; }
AwaitCleanup(effects) ==
    [i \in DOMAIN effects |->
        IF i = aw_cleanup THEN [effects[i] EXCEPT !.cancelled = TRUE] ELSE effects[i]]

\* the body of the effect, run as effect instance id
AwaitEffectBody(id) ==
    IF ~IsPromise(aw_promise)
    THEN /\ aw_queue' = AwaitSetState(aw_queue, Fulfilled(Raw(aw_promise), id))
         /\ aw_effects' = Append(AwaitCleanup(aw_effects),
                [promise |-> aw_promise, cancelled |-> FALSE, done |-> TRUE,
                 superseded |-> FALSE, chain |-> "none"])
         /\ aw_cleanup' = 0
    ELSE /\ aw_queue' = AwaitSetState(aw_queue, Pending(id))
         /\ aw_effects' = Append(AwaitCleanup(aw_effects),
                [promise |-> aw_promise, cancelled |-> FALSE, done |-> FALSE,
                 superseded |-> FALSE, chain |-> "pending"])
         /\ aw_cleanup' = id

\* the passive effects of the last render pass: the previous cleanup, then the body
AwaitFlushEffects ==
    /\ aw_phase = "mounted"
    /\ aw_effectPending
    /\ AwaitEffectBody(Len(aw_effects) + 1)
    /\ aw_effectPending' = FALSE
    /\ UNCHANGED <<aw_phase, aw_promise, aw_errorFn, aw_childrenFn, aw_state,
                   aw_settled, aw_rendered>>
    /\ UNCHANGED awOthers

AwaitUnmount ==
    /\ aw_phase = "mounted"
    /\ ~aw_effectPending
    /\ aw_phase' = "unmounted"
    /\ aw_effectPending' = (aw_cleanup # 0)
    /\ aw_effects' = AwaitMarkSuperseded(aw_effects)
    /\ UNCHANGED <<aw_promise, aw_errorFn, aw_childrenFn, aw_state, aw_queue,
                   aw_cleanup, aw_settled, aw_rendered>>
    /\ UNCHANGED awOthers

\* the cleanup of the last effect instance, run after the unmount
AwaitFlushUnmount ==
    /\ aw_phase = "unmounted"
    /\ aw_effectPending
    /\ aw_effects' = AwaitCleanup(aw_effects)
    /\ aw_cleanup' = 0
    /\ aw_effectPending' = FALSE
    /\ UNCHANGED <<aw_phase, aw_promise, aw_errorFn, aw_childrenFn, aw_state,
                   aw_queue, aw_settled, aw_rendered>>
    /\ UNCHANGED awOthers

\* the promise is settled by whoever owns it
AwaitSettle(p, outcome) ==
    /\ aw_settled[p] = "pending"
    /\ aw_settled' = [aw_settled EXCEPT ![p] = outcome]
    /\ UNCHANGED <<aw_phase, aw_promise, aw_errorFn, aw_childrenFn, aw_state,
                   aw_queue, aw_effectPending, aw_cleanup, aw_effects, aw_rendered>>
    /\ UNCHANGED awOthers

\* a then-handler that does not read the cancelled flag
AwaitThen_IgnoresCancelled(id, queue) ==
    AwaitSetState(queue, Fulfilled(Val(aw_effects[id].promise), id))

\* .then((value) => { if (!cancelled) setState({ status: "fulfilled", value }) })
AwaitThen(id, queue) ==
    IF ~aw_effects[id].cancelled
    THEN AwaitSetState(queue, Fulfilled(Val(aw_effects[id].promise), id))
    ELSE queue

\* a catch-handler that does not record the rejection
AwaitCatch_DropsRejection(id, queue) == queue

\* .catch((err) => { if (!cancelled) setState({ status: "rejected", error: err }) })
AwaitCatch(id, queue) ==
    IF ~aw_effects[id].cancelled
    THEN AwaitSetState(queue, Rejected(Err(aw_effects[id].promise), id))
    ELSE queue

\* what the promise returned by .then(...).catch(...) settles to: the catch
\* handler returns normally, so a rejection is consumed
AwaitChain(outcome) == "fulfilled"

\* the reactions of effect instance id, once its promise has settled
AwaitContinuation(id) ==
    /\ id \in DOMAIN aw_effects
    /\ ~aw_effects[id].done
    /\ aw_settled[aw_effects[id].promise] # "pending"
    /\ aw_queue' = IF aw_settled[aw_effects[id].promise] = "fulfilled"
                   THEN AwaitThen(id, aw_queue)
                   ELSE AwaitCatch(id, aw_queue)
    /\ aw_effects' = [aw_effects EXCEPT
                        ![id].done = TRUE,
                        ![id].chain = AwaitChain(aw_settled[aw_effects[id].promise])]
    /\ UNCHANGED <<aw_phase, aw_promise, aw_errorFn, aw_childrenFn, aw_state,
                   aw_effectPending, aw_cleanup, aw_settled, aw_rendered>>
    /\ UNCHANGED awOthers

AwaitInit ==
    /\ aw_phase = "init"
    /\ aw_promise = "none"
    /\ aw_errorFn = FALSE
    /\ aw_childrenFn = FALSE
    /\ aw_state = Pending(0)
    /\ aw_queue = <<>>
    /\ aw_effectPending = FALSE
    /\ aw_cleanup = 0
    /\ aw_effects = <<>>
    /\ aw_settled = [p \in Promises |-> "pending"]
    /\ aw_rendered = [kind |-> "none", arg |-> NoPayload]

AwaitNext ==
    \/ \E p \in Inputs, ef \in BOOLEAN, cf \in BOOLEAN : AwaitMount(p, ef, cf)
    \/ \E p \in Inputs : AwaitRender(p)
    \/ AwaitFlushEffects
    \/ AwaitUnmount
    \/ AwaitFlushUnmount
    \/ \E p \in Promises, o \in {"fulfilled", "rejected"} : AwaitSettle(p, o)
    \/ \E id \in 1..MaxEffects : AwaitContinuation(id)

----------------------------------------------------------------------------
(* Visible *)

RootMargins == {"0px", "200px"}
\* threshold is compared like rootMargin; one value keeps the state space small
Thresholds == {"t1"}
Callbacks == {"none", "f1", "f2"}
VisibleProps ==
    [once : BOOLEAN, rootMargin : RootMargins, threshold : Thresholds,
     onVisibilityChange : Callbacks]

\* typeof window !== "undefined" && typeof IntersectionObserver !== "undefined"
VisibleIsSupported == vs_env = "browser"

\* a render pass applies the queued setState calls of one hook in order
VisibleReduce(hook, value, queue) ==
    LET idx == {i \in DOMAIN queue : queue[i][1] = hook}
    IN IF idx = {} THEN value
       ELSE queue[CHOOSE i \in idx : \A j \in idx : j <= i][2]

\* setState: queued for the next render pass; dropped once the instance is unmounted
VisibleSetState(queue, hook, value) ==
    IF vs_phase = "mounted" THEN Append(queue, <<hook, value>>) ELSE queue

\* a content choice that always follows the 'has ever been visible' flag
VisibleShouldRender_AlwaysSticky(once, hasBeenVisible, isVisible) == hasBeenVisible

\* a content choice that always follows the current intersection state
VisibleShouldRender_IgnoresOnce(once, hasBeenVisible, isVisible) == isVisible

\* const shouldRender = once ? hasBeenVisible : isVisible
VisibleShouldRender(once, hasBeenVisible, isVisible) ==
    IF once THEN hasBeenVisible ELSE isVisible

\* a render that gates the content before the client-mount effect has run
VisibleView_GatesBeforeClient(isClient, isSupported, once, hasBeenVisible, isVisible) ==
    IF ~isSupported THEN [anchor |-> FALSE, content |-> "children"]
    ELSE [anchor |-> TRUE,
          content |-> IF VisibleShouldRender(once, hasBeenVisible, isVisible)
                      THEN "children" ELSE "fallback"]

\* the return statements of Visible
VisibleView(isClient, isSupported, once, hasBeenVisible, isVisible) ==
    IF ~isClient THEN [anchor |-> FALSE, content |-> "children"]
    ELSE IF ~isSupported THEN [anchor |-> FALSE, content |-> "children"]
    ELSE [anchor |-> TRUE,
          content |-> IF VisibleShouldRender(once, hasBeenVisible, isVisible)
                      THEN "children" ELSE "fallback"]

\* [isClient, isSupported, rootMargin, threshold, once, onVisibilityChange]
VisibleDeps(isClient, props) ==
    <<isClient, VisibleIsSupported, props.rootMargin, props.threshold, props.once,
      props.onVisibilityChange>>

\* the effects a render pass schedules: the observer effect when its list changed
VisibleScheduled(oldDeps, newDeps) ==
    IF oldDeps # newDeps THEN {"observe"} ELSE {}

\* the first render pass; on the server no effect ever runs
VisibleMount(env, props) ==
    /\ vs_phase = "init"
    /\ vs_phase' = "mounted"
    /\ vs_env' = env
    /\ vs_props' = props
    /\ vs_onceAlways' = props.once
    /\ vs_rendered' = VisibleView(vs_isClient, env = "browser", props.once,
                                  vs_hasBeenVisible, vs_isVisible)
    /\ vs_ref' = vs_rendered'.anchor
    /\ vs_deps' = <<vs_isClient, env = "browser", props.rootMargin, props.threshold,
                    props.once, props.onVisibilityChange>>
    /\ vs_pendingEffects' = IF env = "server" THEN {} ELSE {"client", "observe"}
    /\ UNCHANGED <<vs_isVisible, vs_hasBeenVisible, vs_isClient, vs_queue, vs_observers,
                   vs_cleanup, vs_notified, vs_lastNotified, vs_everHit,
                   vs_frozen, vs_calls, vs_lastCall>>
    /\ UNCHANGED vsOthers

\* a render pass with the given props (a parent re-render, or the re-render a
\* setState scheduled when they are the current props)
VisibleRender(props) ==
    /\ vs_phase = "mounted"
    /\ vs_env # "server"
    /\ vs_pendingEffects = {}
    /\ vs_isVisible' = VisibleReduce("isVisible", vs_isVisible, vs_queue)
    /\ vs_hasBeenVisible' = VisibleReduce("hasBeenVisible", vs_hasBeenVisible, vs_queue)
    /\ vs_isClient' = VisibleReduce("isClient", vs_isClient, vs_queue)
    /\ vs_queue' = <<>>
    /\ vs_props' = props
    /\ vs_onceAlways' = (vs_onceAlways /\ props.once)
    /\ vs_rendered' = VisibleView(vs_isClient', VisibleIsSupported, props.once,
                                  vs_hasBeenVisible', vs_isVisible')
    /\ vs_ref' = vs_rendered'.anchor
    /\ vs_deps' = VisibleDeps(vs_isClient', props)
    /\ vs_pendingEffects' = VisibleScheduled(vs_deps, vs_deps')
    /\ vs_pendingEffects' # {} => Len(vs_observers) < MaxObservers
    /\ UNCHANGED <<vs_phase, vs_env, vs_observers, vs_cleanup, vs_notified,
                   vs_lastNotified, vs_everHit, vs_frozen, vs_calls, vs_lastCall>>
    /\ UNCHANGED vsOthers

\* useEffect(() => { setIsClient(true); }, [])
VisibleClientEffect(queue) ==
    IF "client" \in vs_pendingEffects
    THEN VisibleSetState(queue, "isClient", TRUE) ELSE queue

\* return () => observer.disconnect()
VisibleCleanup(observers) ==
    [i \in DOMAIN observers |->
        IF i = vs_cleanup THEN [observers[i] EXCEPT !.connected = FALSE]
        ELSE observers[i]]

\* new IntersectionObserver(callback, { rootMargin, threshold }); observe(element)
VisibleObserve(observers) ==
    Append(observers,
           [connected |-> TRUE, once |-> vs_props.once,
            onVisibilityChange |-> vs_props.onVisibilityChange])

\* the body of the observer effect, after the cleanup of its previous run
VisibleObserverEffect(queue) ==
    IF ~vs_isClient
    THEN /\ vs_queue' = queue
         /\ vs_observers' = VisibleCleanup(vs_observers)
         /\ vs_cleanup' = 0
    ELSE IF ~VisibleIsSupported
    THEN /\ vs_queue' = VisibleSetState(VisibleSetState(queue, "isVisible", TRUE),
                                        "hasBeenVisible", TRUE)
         /\ vs_observers' = VisibleCleanup(vs_observers)
         /\ vs_cleanup' = 0
    ELSE IF ~vs_ref
    THEN /\ vs_queue' = queue
         /\ vs_observers' = VisibleCleanup(vs_observers)
         /\ vs_cleanup' = 0
    ELSE /\ vs_queue' = queue
         /\ vs_observers' = VisibleObserve(VisibleCleanup(vs_observers))
         /\ vs_cleanup' = Len(vs_observers) + 1

\* the passive effects of the last render pass, in declaration order
VisibleFlushEffects ==
    /\ vs_phase = "mounted"
    /\ vs_pendingEffects # {}
    /\ IF "observe" \in vs_pendingEffects
       THEN VisibleObserverEffect(VisibleClientEffect(vs_queue))
       ELSE /\ vs_queue' = VisibleClientEffect(vs_queue)
            /\ UNCHANGED <<vs_observers, vs_cleanup>>
    /\ vs_pendingEffects' = {}
    /\ UNCHANGED <<vs_phase, vs_env, vs_props, vs_isVisible, vs_hasBeenVisible,
                   vs_isClient, vs_deps, vs_ref, vs_notified, vs_lastNotified,
                   vs_everHit, vs_frozen, vs_onceAlways, vs_calls, vs_lastCall,
                   vs_rendered>>
    /\ UNCHANGED vsOthers

\* if (visible) { ...; if (once) observer.disconnect() }
VisibleDisconnects(visible, once) == visible /\ once

\* the callback of observer i, which is observing the anchor
VisibleNotify(i, entries) ==
    /\ i \in DOMAIN vs_observers
    /\ vs_observers[i].connected
    /\ vs_notified < MaxNotify
    /\ IF entries = <<>>
       THEN UNCHANGED <<vs_queue, vs_observers, vs_notified, vs_lastNotified,
                        vs_everHit, vs_frozen, vs_calls, vs_lastCall>>
       ELSE LET visible == entries[1] IN
            /\ vs_queue' =
                 IF visible
                 THEN VisibleSetState(VisibleSetState(vs_queue, "isVisible", visible),
                                      "hasBeenVisible", TRUE)
                 ELSE VisibleSetState(vs_queue, "isVisible", visible)
            /\ IF vs_observers[i].onVisibilityChange # "none"
               THEN /\ vs_calls' = vs_calls + 1
                    /\ vs_lastCall' = <<vs_observers[i].onVisibilityChange, visible>>
               ELSE UNCHANGED <<vs_calls, vs_lastCall>>
            /\ vs_observers' =
                 IF VisibleDisconnects(visible, vs_observers[i].once)
                 THEN [vs_observers EXCEPT ![i].connected = FALSE] ELSE vs_observers
            /\ vs_frozen' = (vs_frozen \/ (visible /\ vs_observers[i].once))
            /\ vs_notified' = vs_notified + 1
            /\ vs_lastNotified' = IF visible THEN "intersecting" ELSE "away"
            /\ vs_everHit' = (vs_everHit \/ visible)
    /\ UNCHANGED <<vs_phase, vs_env, vs_props, vs_isVisible, vs_hasBeenVisible,
                   vs_isClient, vs_deps, vs_pendingEffects, vs_ref, vs_cleanup,
                   vs_onceAlways, vs_rendered>>
    /\ UNCHANGED vsOthers

VisibleUnmount ==
    /\ vs_phase = "mounted"
    /\ vs_env # "server"
    /\ vs_pendingEffects = {}
    /\ vs_phase' = "unmounted"
    /\ vs_ref' = FALSE
    /\ vs_pendingEffects' = IF vs_cleanup # 0 THEN {"observe"} ELSE {}
    /\ UNCHANGED <<vs_env, vs_props, vs_isVisible, vs_hasBeenVisible, vs_isClient,
                   vs_queue, vs_deps, vs_observers, vs_cleanup, vs_notified,
                   vs_lastNotified, vs_everHit, vs_frozen, vs_onceAlways, vs_calls,
                   vs_lastCall, vs_rendered>>
    /\ UNCHANGED vsOthers

\* the cleanup of the observer effect, run after the unmount
VisibleFlushUnmount ==
    /\ vs_phase = "unmounted"
    /\ vs_pendingEffects # {}
    /\ vs_observers' = VisibleCleanup(vs_observers)
    /\ vs_cleanup' = 0
    /\ vs_pendingEffects' = {}
    /\ UNCHANGED <<vs_phase, vs_env, vs_props, vs_isVisible, vs_hasBeenVisible,
                   vs_isClient, vs_queue, vs_deps, vs_ref, vs_notified,
                   vs_lastNotified, vs_everHit, vs_frozen, vs_onceAlways, vs_calls,
                   vs_lastCall, vs_rendered>>
    /\ UNCHANGED vsOthers

VisibleInit ==
    /\ vs_phase = "init"
    /\ vs_env = "browser"
    /\ vs_props = [once |-> TRUE, rootMargin |-> "0px", threshold |-> "t1",
                   onVisibilityChange |-> "none"]
    /\ vs_isVisible = FALSE
    /\ vs_hasBeenVisible = FALSE
    /\ vs_isClient = FALSE
    /\ vs_queue = <<>>
    /\ vs_deps = <<>>
    /\ vs_pendingEffects = {}
    /\ vs_ref = FALSE
    /\ vs_observers = <<>>
    /\ vs_cleanup = 0
    /\ vs_notified = 0
    /\ vs_lastNotified = "none"
    /\ vs_everHit = FALSE
    /\ vs_frozen = FALSE
    /\ vs_onceAlways = TRUE
    /\ vs_calls = 0
    /\ vs_lastCall = <<"none", FALSE>>
    /\ vs_rendered = [anchor |-> FALSE, content |-> "none"]

VisibleNext ==
    \/ \E env \in {"server", "browser", "native"}, props \in VisibleProps :
          VisibleMount(env, props)
    \/ \E props \in VisibleProps : VisibleRender(props)
    \/ VisibleFlushEffects
    \/ \E i \in 1..MaxObservers, entries \in {<<>>, <<TRUE>>, <<FALSE>>} :
          VisibleNotify(i, entries)
    \/ VisibleUnmount
    \/ VisibleFlushUnmount

----------------------------------------------------------------------------
(* Timeout *)

Delays == {100, 200}
TimeoutCallbacks == {"none", "g1", "g2"}
TimeoutProps == [ms : Delays, mode : {"after", "before"}, onTimeout : TimeoutCallbacks]

\* an initial state with the polarity inverted
TimeoutInitialReady_Inverted(mode) == mode = "after"

\* useState(mode === "before")
TimeoutInitialReady(mode) == mode = "before"

\* a render pass applies the queued updaters (prev) => !prev in order
TimeoutReduce(ready, toggles) ==
    IF toggles % 2 = 0 THEN ready ELSE ~ready

\* the return statements of Timeout
TimeoutView(mode, ready) ==
    IF mode = "after"
    THEN IF ready THEN "children" ELSE "fallback"
    ELSE IF ready THEN "children" ELSE "null"

\* the dependency list [ms, onTimeout], compared with Object.is
TimeoutDepsChanged(old, new) ==
    old.ms # new.ms \/ old.onTimeout # new.onTimeout

TimeoutMount(props) ==
    /\ tm_phase = "init"
    /\ tm_phase' = "mounted"
    /\ tm_props' = props
    /\ tm_mode0' = props.mode
    /\ tm_ready' = TimeoutInitialReady(props.mode)
    /\ tm_rendered' = TimeoutView(props.mode, tm_ready')
    /\ tm_effectPending' = TRUE
    /\ UNCHANGED <<tm_toggles, tm_timers, tm_cleanup, tm_fired, tm_calls>>
    /\ UNCHANGED tmOthers

\* a render pass with the given props (a parent re-render, or the re-render a
\* setReady scheduled when they are the current props)
TimeoutRender(props) ==
    /\ tm_phase = "mounted"
    /\ ~tm_effectPending
    /\ TimeoutDepsChanged(tm_props, props) => Len(tm_timers) < MaxTimers
    /\ tm_props' = props
    /\ tm_ready' = TimeoutReduce(tm_ready, tm_toggles)
    /\ tm_toggles' = 0
    /\ tm_rendered' = TimeoutView(props.mode, tm_ready')
    /\ tm_effectPending' = TimeoutDepsChanged(tm_props, props)
    /\ UNCHANGED <<tm_phase, tm_mode0, tm_timers, tm_cleanup, tm_fired, tm_calls>>
    /\ UNCHANGED tmOthers

\* the re-render React performs for queued setReady calls
TimeoutUpdate ==
    /\ tm_toggles > 0
    /\ TimeoutRender(tm_props)

\* a cleanup that leaves the timer running
TimeoutCleanup_KeepsTimer(timers) == timers

\* return () => clearTimeout(timer)
TimeoutCleanup(timers) ==
    [i \in DOMAIN timers |->
        IF i = tm_cleanup THEN [timers[i] EXCEPT !.pending = FALSE] ELSE timers[i]]

\* the passive effect of the last render pass: the previous cleanup, then
\* const timer = setTimeout(..., ms)
TimeoutFlushEffects ==
    /\ tm_phase = "mounted"
    /\ tm_effectPending
    /\ tm_timers' = Append(TimeoutCleanup(tm_timers),
                            [pending |-> TRUE, onTimeout |-> tm_props.onTimeout,
                             ms |-> tm_props.ms])
    /\ tm_cleanup' = Len(tm_timers) + 1
    /\ tm_effectPending' = FALSE
    /\ UNCHANGED <<tm_phase, tm_props, tm_mode0, tm_ready, tm_toggles, tm_fired,
                   tm_calls, tm_rendered>>
    /\ UNCHANGED tmOthers

\* the callback of timer i: setReady((prev) => !prev); onTimeout?.()
TimeoutFire(i) ==
    /\ i \in DOMAIN tm_timers
    /\ tm_timers[i].pending
    /\ tm_timers' = [tm_timers EXCEPT ![i].pending = FALSE]
    /\ tm_toggles' = IF tm_phase = "mounted" THEN tm_toggles + 1 ELSE tm_toggles
    /\ tm_fired' = tm_fired + 1
    /\ tm_calls' = IF tm_timers[i].onTimeout # "none" THEN tm_calls + 1 ELSE tm_calls
    /\ UNCHANGED <<tm_phase, tm_props, tm_mode0, tm_ready, tm_effectPending, tm_cleanup,
                   tm_rendered>>
    /\ UNCHANGED tmOthers

TimeoutUnmount ==
    /\ tm_phase = "mounted"
    /\ ~tm_effectPending
    /\ tm_phase' = "unmounted"
    /\ tm_effectPending' = (tm_cleanup # 0)
    /\ UNCHANGED <<tm_props, tm_mode0, tm_ready, tm_toggles, tm_timers, tm_cleanup,
                   tm_fired, tm_calls, tm_rendered>>
    /\ UNCHANGED tmOthers

\* the cleanup of the effect, run after the unmount
TimeoutFlushUnmount ==
    /\ tm_phase = "unmounted"
    /\ tm_effectPending
    /\ tm_timers' = TimeoutCleanup(tm_timers)
    /\ tm_cleanup' = 0
    /\ tm_effectPending' = FALSE
    /\ UNCHANGED <<tm_phase, tm_props, tm_mode0, tm_ready, tm_toggles,
                   tm_fired, tm_calls, tm_rendered>>
    /\ UNCHANGED tmOthers

TimeoutInit ==
    /\ tm_phase = "init"
    /\ tm_props = [ms |-> 100, mode |-> "after", onTimeout |-> "none"]
    /\ tm_mode0 = "after"
    /\ tm_ready = FALSE
    /\ tm_toggles = 0
    /\ tm_effectPending = FALSE
    /\ tm_timers = <<>>
    /\ tm_cleanup = 0
    /\ tm_fired = 0
    /\ tm_calls = 0
    /\ tm_rendered = "none"

TimeoutNext ==
    \/ \E props \in TimeoutProps : TimeoutMount(props)
    \/ \E props \in TimeoutProps : TimeoutRender(props)
    \/ TimeoutFlushEffects
    \/ \E i \in 1..MaxTimers : TimeoutFire(i)
    \/ TimeoutUnmount
    \/ TimeoutFlushUnmount

----------------------------------------------------------------------------
(* JavaScript values, as far as the components tell them apart *)

\* t: the kind of value; n: the number, the length of a string or an array, the
\* size of a Map or a Set, the number of own keys of an object, 1 for true;
\* nan: the number is NaN; proto: the prototype of an object
JsValue(t, n, nan, proto) == [t |-> t, n |-> n, nan |-> nan, proto |-> proto]

JsUndefined == JsValue("undefined", 0, FALSE, "none")
JsNull == JsValue("null", 0, FALSE, "none")
JsBoolean(b) == JsValue("boolean", IF b THEN 1 ELSE 0, FALSE, "none")
JsNumber(n) == JsValue("number", n, FALSE, "none")
JsNaN == JsValue("number", 0, TRUE, "none")
JsString(length) == JsValue("string", length, FALSE, "none")
JsArray(length) == JsValue("Array", length, FALSE, "Array.prototype")
JsMap(size) == JsValue("Map", size, FALSE, "Map.prototype")
JsSet(size) == JsValue("Set", size, FALSE, "Set.prototype")
JsObject(keys) == JsValue("Object", keys, FALSE, "Object.prototype")

\* the values tried: besides the usual ones, the BigInts 0n and 1n, an instance
\* of a class and an object without prototype (both without own keys), and a
\* function
JsValues ==
    {JsUndefined, JsNull, JsBoolean(FALSE), JsBoolean(TRUE), JsNumber(0), JsNumber(42),
     JsNaN, JsString(0), JsString(1), JsArray(0), JsArray(1),
     JsMap(0), JsMap(1), JsSet(0), JsSet(1), JsObject(0), JsObject(1),
     JsValue("bigint", 0, FALSE, "none"), JsValue("bigint", 1, FALSE, "none"),
     JsValue("Object", 0, FALSE, "Foo.prototype"), JsValue("Object", 0, FALSE, "null"),
     JsValue("function", 0, FALSE, "Function.prototype")}

\* the conversion to boolean that !value and if (value) apply
ToBoolean(value) ==
    CASE value.t \in {"undefined", "null"} -> FALSE
      [] value.t = "boolean" -> value.n = 1
      [] value.t = "number" -> ~value.nan /\ value.n # 0
      [] value.t = "bigint" -> value.n # 0
      [] value.t = "string" -> value.n # 0
      [] OTHER -> TRUE

\* typeof node === "function" ? node() : node
resolveNode(node) ==
    [content |-> IF node = "unset" THEN "null" ELSE node,
     calls |-> IF node = "fn" THEN <<"fn">> ELSE <<>>]

----------------------------------------------------------------------------
(* For *)

Items == {"a", "b"}

SeqsUpTo(S, n) == UNION {[1..k -> S] : k \in 0..n}

ForEachValues ==
    {[t |-> "null", v |-> <<>>], [t |-> "undefined", v |-> <<>>]}
        \cup {[t |-> "array", v |-> q] : q \in SeqsUpTo(Items, MaxLen)}

\* children returns an element with a key, an element without one, or a string;
\* wrapper is unset, an element, or something that is not an element
ForProps ==
    [each : ForEachValues,
     children : {"keyed", "unkeyed", "text"},
     keyExtractor : {"none", "byItem", "byIndex"},
     fallback : {"unset", "EmptyState"},
     wrapper : {"none", "ul", "notElement"},
     reverse : BOOLEAN]

\* a React key: a string, a number, or none
KeyString(s) == [t |-> "string", s |-> s, n |-> 0]
KeyNumber(n) == [t |-> "number", s |-> "", n |-> n]
KeyNull == [t |-> "null", s |-> "", n |-> 0]

\* the decimal digits of a small index
NumberToString(n) == <<"0", "1", "2", "3", "4", "5", "6", "7", "8", "9">>[n + 1]

\* the key attribute of JSX: '' + key, and no key for null
JsxKey(key) ==
    IF key.t = "number" THEN KeyString(NumberToString(key.n)) ELSE key

\* a ?? b
Nullish(a, b) == IF a.t = "null" THEN b ELSE a

\* Array.prototype.reverse, as a value
Reverse(q) == [i \in 1..Len(q) |-> q[Len(q) + 1 - i]]

\* a reversal in place of the caller's array
ForItems_InPlace(each, reverse) ==
    IF reverse
    THEN [items |-> Reverse(each), each |-> Reverse(each)]
    ELSE [items |-> each, each |-> each]

\* const items = reverse ? [...each].reverse() : each
ForItems(each, reverse) ==
    [items |-> IF reverse THEN Reverse(each) ELSE each, each |-> each]

\* const originalIndex = reverse ? each.length - 1 - i : i
ForOriginalIndex(reverse, length, i) ==
    IF reverse THEN length - 1 - i ELSE i

\* what children(item, index, array) returns
ForChild(children, item, index) ==
    [element |-> children # "text",
     key |-> IF children = "keyed" THEN KeyString(item) ELSE KeyNull,
     content |-> <<item, index>>]

\* isValidElement(child) ? child.key : null
ForChildKey(child) == IF child.element THEN child.key ELSE KeyNull

\* what keyExtractor(item, index) returns
ForExtract(keyExtractor, item, index) ==
    IF keyExtractor = "byItem" THEN KeyString("id-" \o item) ELSE KeyNumber(index)

\* a key that prefers the child's own key to the extractor
ForKey_ChildFirst(keyExtractor, item, originalIndex, childKey) ==
    Nullish(childKey,
            IF keyExtractor # "none"
            THEN ForExtract(keyExtractor, item, originalIndex)
            ELSE KeyNumber(originalIndex))

\* keyExtractor ? keyExtractor(item, originalIndex) : (childKey ?? originalIndex)
ForKey(keyExtractor, item, originalIndex, childKey) ==
    IF keyExtractor # "none"
    THEN ForExtract(keyExtractor, item, originalIndex)
    ELSE Nullish(childKey, KeyNumber(originalIndex))

\* a short-circuit that forgets the zero-length array
ForIsEmpty_NullOnly(each) == each.t # "array"

\* !each || each.length === 0
ForIsEmpty(each) == each.t # "array" \/ Len(each.v) = 0

\* the function For: what it returns, the invocations it makes, and the
\* caller's array afterwards
For(props) ==
    IF ForIsEmpty(props.each)
    THEN [each |-> props.each,
          calls |-> <<>>,
          keyCalls |-> <<>>,
          result |-> [kind |-> "fallback",
                      content |-> IF props.fallback = "unset" THEN "null"
                                  ELSE props.fallback,
                      wrapper |-> "none",
                      elements |-> <<>>]]
    ELSE
      LET array == ForItems(props.each.v, props.reverse)
          items == array.items
          each == array.each
          originalIndex(i) == ForOriginalIndex(props.reverse, Len(each), i - 1)
          child(i) == ForChild(props.children, items[i], originalIndex(i))
          elements ==
              [i \in 1..Len(items) |->
                  [key |-> JsxKey(ForKey(props.keyExtractor, items[i], originalIndex(i),
                                         ForChildKey(child(i)))),
                   child |-> child(i)]]
          \* wrapper && isValidElement(wrapper)
          wrapped == props.wrapper # "none" /\ props.wrapper = "ul"
      IN  [each |-> [t |-> "array", v |-> each],
           calls |-> [i \in 1..Len(items) |-> <<items[i], originalIndex(i), each>>],
           keyCalls |-> IF props.keyExtractor = "none" THEN <<>>
                        ELSE [i \in 1..Len(items) |-> <<items[i], originalIndex(i)>>],
           result |-> [kind |-> IF wrapped THEN "wrapped" ELSE "elements",
                       content |-> "null",
                       wrapper |-> IF wrapped THEN props.wrapper ELSE "none",
                       elements |-> elements]]

\* the render pass of one <For ...>
ForRender(props) ==
    /\ fo_props' = props
    /\ fo_each' = For(props).each
    /\ fo_calls' = For(props).calls
    /\ fo_keyCalls' = For(props).keyCalls
    /\ fo_result' = For(props).result
    /\ UNCHANGED <<awVars, vsVars, tmVars, swVars, shVars, qbVars, rpVars, spVars, dyVars, coVars>>

ForInit ==
    /\ fo_props = [each |-> [t |-> "undefined", v |-> <<>>], children |-> "none",
                   keyExtractor |-> "none", fallback |-> "unset", wrapper |-> "none",
                   reverse |-> FALSE]
    /\ fo_each = [t |-> "undefined", v |-> <<>>]
    /\ fo_calls = <<>>
    /\ fo_keyCalls = <<>>
    /\ fo_result = [kind |-> "none", content |-> "null", wrapper |-> "none",
                    elements |-> <<>>]

\* one render pass of the instance is followed
ForNext ==
    /\ fo_result.kind = "none"
    /\ \E props \in ForProps : ForRender(props)

----------------------------------------------------------------------------
(* Show *)

\* fallback is unset, a node, or a function (which Show returns as it is)
ShowProps ==
    [when : JsValues, children : {"node", "fn"}, fallback : {"unset", "Fallback", "fn"}]

\* an emptiness test that never finds a value empty
isEmpty_Never(value) == FALSE

\* function isEmpty(value)
isEmpty(value) ==
    IF value.t = "Array" THEN value.n = 0
    ELSE IF value.t \in {"Map", "Set"} THEN value.n = 0
    ELSE IF value.t = "Object" /\ value.proto = "Object.prototype" THEN value.n = 0
    ELSE FALSE

\* the function Show: what it returns and the invocations of children
Show(props) ==
    IF ~ToBoolean(props.when) \/ isEmpty(props.when)
    THEN [result |-> [kind |-> "fallback",
                      content |-> IF props.fallback = "unset" THEN "null"
                                  ELSE props.fallback,
                      arg |-> JsUndefined],
          calls |-> <<>>]
    ELSE IF props.children = "fn"
    THEN [result |-> [kind |-> "children", content |-> "fn", arg |-> props.when],
          calls |-> <<props.when>>]
    ELSE [result |-> [kind |-> "children", content |-> "node", arg |-> JsUndefined],
          calls |-> <<>>]

\* the render pass of one <Show ...>
ShowRender(props) ==
    /\ sh_props' = props
    /\ sh_result' = Show(props).result
    /\ sh_calls' = Show(props).calls
    /\ UNCHANGED <<awVars, vsVars, tmVars, foVars, swVars, qbVars, rpVars, spVars, dyVars, coVars>>

ShowInit ==
    /\ sh_props = [when |-> JsUndefined, children |-> "none", fallback |-> "unset"]
    /\ sh_result = [kind |-> "none", content |-> "null", arg |-> JsUndefined]
    /\ sh_calls = <<>>

\* one render pass of the instance is followed
ShowNext ==
    /\ sh_result.kind = "none"
    /\ \E props \in ShowProps : ShowRender(props)

----------------------------------------------------------------------------
(* Switch *)

SwitchConditions ==
    {JsBoolean(FALSE), JsBoolean(TRUE), JsNumber(0), JsString(1), JsArray(0),
     JsObject(0), JsMap(0), JsSet(0)}

\* the children of a Switch: <Match when=...> with a node or a function as its
\* payload, <Default>, another element, or a hole (null, false) in the list
SwitchEntries ==
    {[type |-> "Match", when |-> w, children |-> c] :
        w \in SwitchConditions, c \in {"node", "fn"}}
        \cup {[type |-> t, when |-> JsUndefined, children |-> "node"] :
                 t \in {"Default", "other", "hole"}}

SwitchProps ==
    [children : SeqsUpTo(SwitchEntries, MaxEntries), fallback : {"unset", "node", "fn"}]

\* the elements of q that satisfy Keep, in order, each with its declared position
RECURSIVE SwitchKeep(_, _)
SwitchKeep(q, i) ==
    IF i > Len(q) THEN <<>>
    ELSE IF q[i].type = "hole" THEN SwitchKeep(q, i + 1)
    ELSE <<[entry |-> i, child |-> q[i]]>> \o SwitchKeep(q, i + 1)

\* an array that lists the children last to first
SwitchToArray_Reversed(children) == Reverse(SwitchKeep(children, 1))

\* Children.toArray(children): the children in declaration order, holes dropped
SwitchToArray(children) == SwitchKeep(children, 1)

isMatchElement(child) == child.type = "Match"

isDefaultElement(child) == child.type = "Default"

\* a Default that does not replace the content of an earlier Default
SwitchDefaultContent_KeepsFirst(defaultContent, item) ==
    IF defaultContent.kind = "default" THEN defaultContent
    ELSE [kind |-> "default", entry |-> item.entry, content |-> "node", arg |-> JsUndefined]

\* defaultContent = child.props.children
SwitchDefaultContent(defaultContent, item) ==
    [kind |-> "default", entry |-> item.entry, content |-> "node", arg |-> JsUndefined]

\* if (when)
SwitchWhen(when) == ToBoolean(when)

\* the for loop over childArray from position i on
RECURSIVE SwitchWalk(_, _, _)
SwitchWalk(childArray, i, defaultContent) ==
    IF i > Len(childArray)
    THEN [result |-> defaultContent, calls |-> <<>>]
    ELSE
      LET item == childArray[i]
          child == item.child
      IN  IF isDefaultElement(child)
          THEN SwitchWalk(childArray, i + 1, SwitchDefaultContent(defaultContent, item))
          ELSE IF isMatchElement(child) /\ SwitchWhen(child.when)
          THEN IF child.children = "fn"
               THEN [result |-> [kind |-> "match", entry |-> item.entry,
                                 content |-> "fn", arg |-> child.when],
                     calls |-> <<<<item.entry, child.when>>>>]
               ELSE [result |-> [kind |-> "match", entry |-> item.entry,
                                 content |-> "node", arg |-> JsUndefined],
                     calls |-> <<>>]
          ELSE SwitchWalk(childArray, i + 1, defaultContent)

\* the function Switch: what it returns and the invocations it makes
Switch(props) ==
    LET fallback == resolveNode(props.fallback)
        walk == SwitchWalk(SwitchToArray(props.children), 1,
                           [kind |-> "fallback", entry |-> 0,
                            content |-> fallback.content, arg |-> JsUndefined])
    IN  [result |-> walk.result,
         calls |-> [i \in 1..Len(fallback.calls) |-> <<0, JsUndefined>>] \o walk.calls]

\* the render pass of one <Switch ...>
SwitchRender(props) ==
    /\ sw_props' = props
    /\ sw_result' = Switch(props).result
    /\ sw_calls' = Switch(props).calls
    /\ UNCHANGED <<awVars, vsVars, tmVars, foVars, shVars, qbVars, rpVars, spVars, dyVars, coVars>>

SwitchInit ==
    /\ sw_props = [children |-> <<>>, fallback |-> "none"]
    /\ sw_result = [kind |-> "none", entry |-> 0, content |-> "null", arg |-> JsUndefined]
    /\ sw_calls = <<>>

\* one render pass of the instance is followed
SwitchNext ==
    /\ sw_result.kind = "none"
    /\ \E props \in SwitchProps : SwitchRender(props)

----------------------------------------------------------------------------
(* QueryBoundary *)

QueryFlags == {"unset", "true", "false"}

QueryData ==
    {JsUndefined, JsNull, JsBoolean(FALSE), JsNumber(0), JsString(0), JsArray(0),
     JsArray(1), JsObject(0), JsObject(1), JsMap(1)}

QueryValues ==
    {[t |-> t, data |-> JsUndefined, isPending |-> "unset", isError |-> "unset",
      isEmpty |-> "unset"] : t \in {"null", "undefined"}}
        \cup [t : {"object"}, data : QueryData, isPending : QueryFlags,
              isError : QueryFlags, isEmpty : QueryFlags]

QueryBoundaryProps ==
    [query : QueryValues,
     when : QueryFlags,
     loading : {"unset", "node", "fn"},
     error : {"unset", "node", "fn"},
     empty : {"unset", "node", "fn"},
     children : {"node", "fn"},
     isEmptyFn : {"unset", "never"}]

\* Object.keys(value).length
JsOwnKeys(value) ==
    IF value.t \in {"Array", "Object"} THEN value.n ELSE 0

\* function defaultIsEmpty(data)
defaultIsEmpty(data) ==
    IF data.t \in {"undefined", "null"} THEN TRUE
    ELSE IF data.t = "Array" THEN data.n = 0
    ELSE IF data.t \in {"Array", "Map", "Set", "Object"} THEN JsOwnKeys(data) = 0
    ELSE FALSE

\* isEmptyFn(data), with isEmptyFn = defaultIsEmpty when unset
QueryIsEmptyFn(isEmptyFn, data) ==
    IF isEmptyFn = "unset" THEN defaultIsEmpty(data) ELSE FALSE

\* an error view that does not look at the data
QueryShowsError_IgnoresData(isError, dataEmpty) == isError = "true"

\* isError && isEmptyFn(data)
QueryShowsError(isError, dataEmpty) == isError = "true" /\ dataEmpty

\* an emptiness step in which the flag only adds to what isEmptyFn finds
QueryIsEmpty_FnFirst(queryIsEmpty, dataEmpty) == dataEmpty \/ queryIsEmpty = "true"

\* const isEmpty = queryIsEmpty ?? isEmptyFn(data)
QueryIsEmpty(queryIsEmpty, dataEmpty) ==
    IF queryIsEmpty = "unset" THEN dataEmpty ELSE queryIsEmpty = "true"

\* a guard that looks at the pending flag first
QueryRendersNothing_PendingFirst(when, query) ==
    (when = "false" \/ query.t # "object") /\ query.isPending # "true"

\* !when || !query, with when = true when unset
QueryRendersNothing(when, query) ==
    when = "false" \/ query.t # "object"

\* the function QueryBoundary: what it returns and the invocations it makes
QueryBoundary(props) ==
    LET query == props.query
        node(kind, r) == [result |-> [kind |-> kind, content |-> r.content,
                                      arg |-> JsUndefined],
                          calls |-> [i \in 1..Len(r.calls) |-> kind]]
        dataEmpty == QueryIsEmptyFn(props.isEmptyFn, query.data)
    IN  IF QueryRendersNothing(props.when, query)
        THEN [result |-> [kind |-> "nothing", content |-> "null", arg |-> JsUndefined],
              calls |-> <<>>]
        ELSE IF query.isPending = "true"
        THEN node("loading", resolveNode(props.loading))
        ELSE IF QueryShowsError(query.isError, dataEmpty)
        THEN node("error", resolveNode(props.error))
        ELSE IF QueryIsEmpty(query.isEmpty, dataEmpty)
        THEN node("empty", resolveNode(props.empty))
        ELSE IF props.children = "fn"
        THEN [result |-> [kind |-> "children", content |-> "fn", arg |-> query.data],
              calls |-> <<"children">>]
        ELSE [result |-> [kind |-> "children", content |-> "node", arg |-> JsUndefined],
              calls |-> <<>>]

\* the render pass of one <QueryBoundary ...>
QueryBoundaryRender(props) ==
    /\ qb_props' = props
    /\ qb_result' = QueryBoundary(props).result
    /\ qb_calls' = QueryBoundary(props).calls
    /\ UNCHANGED <<awVars, vsVars, tmVars, foVars, swVars, shVars, rpVars, spVars, dyVars, coVars>>

QueryBoundaryInit ==
    /\ qb_props = [query |-> [t |-> "undefined", data |-> JsUndefined,
                              isPending |-> "unset", isError |-> "unset",
                              isEmpty |-> "unset"],
                   when |-> "unset", loading |-> "unset", error |-> "unset",
                   empty |-> "unset", children |-> "none", isEmptyFn |-> "unset"]
    /\ qb_result = [kind |-> "none", content |-> "null", arg |-> JsUndefined]
    /\ qb_calls = <<>>

\* one render pass of the instance is followed
QueryBoundaryNext ==
    /\ qb_result.kind = "none"
    /\ \E props \in QueryBoundaryProps : QueryBoundaryRender(props)

----------------------------------------------------------------------------
(* Repeat *)

\* keyExtractor, fallback and reverse are props a caller may pass as to For;
\* Repeat destructures times, children and wrapper only
RepeatProps ==
    [times : -1..MaxTimes,
     children : {"keyed", "unkeyed", "text"},
     wrapper : {"none", "ul", "notElement"},
     keyExtractor : {"none", "byItem", "byIndex"},
     fallback : {"unset", "EmptyState"},
     reverse : BOOLEAN]

\* what children(i) returns: <Star key={i} />, an element without key, or a string
RepeatChild(children, i) ==
    [element |-> children # "text",
     key |-> IF children = "keyed" THEN KeyString(NumberToString(i)) ELSE KeyNull,
     content |-> <<i>>]

\* a short-circuit for zero only
RepeatIsEmpty_ZeroOnly(times) == times = 0

\* times <= 0
RepeatIsEmpty(times) == times <= 0

\* the function Repeat: what it returns and the invocations of children
Repeat(props) ==
    IF RepeatIsEmpty(props.times)
    THEN [calls |-> <<>>,
          result |-> [kind |-> "fallback", content |-> "null", wrapper |-> "none",
                      elements |-> <<>>]]
    ELSE
      LET \* for (let i = 0; i < times; i++)
          elements == [k \in 1..props.times |->
                          [key |-> JsxKey(KeyNumber(k - 1)),
                           child |-> RepeatChild(props.children, k - 1)]]
          \* wrapper && isValidElement(wrapper)
          wrapped == props.wrapper # "none" /\ props.wrapper = "ul"
      IN  [calls |-> [k \in 1..props.times |-> <<k - 1>>],
           result |-> [kind |-> IF wrapped THEN "wrapped" ELSE "elements",
                       content |-> "null",
                       wrapper |-> IF wrapped THEN props.wrapper ELSE "none",
                       elements |-> elements]]

\* the render pass of one <Repeat ...>
RepeatRender(props) ==
    /\ rp_props' = props
    /\ rp_calls' = Repeat(props).calls
    /\ rp_result' = Repeat(props).result
    /\ UNCHANGED <<awVars, vsVars, tmVars, foVars, swVars, shVars, qbVars, spVars, dyVars, coVars>>

RepeatInit ==
    /\ rp_props = [times |-> 0, children |-> "none", wrapper |-> "none",
                   keyExtractor |-> "none", fallback |-> "unset", reverse |-> FALSE]
    /\ rp_calls = <<>>
    /\ rp_result = [kind |-> "none", content |-> "null", wrapper |-> "none",
                    elements |-> <<>>]

\* one render pass of the instance is followed
RepeatNext ==
    /\ rp_result.kind = "none"
    /\ \E props \in RepeatProps : RepeatRender(props)

----------------------------------------------------------------------------
(* Split *)

\* the characters of the strings tried: a letter, and the dot that is special
\* in a pattern
Chars == {"a", "."}

\* a separator is a literal (chars) or a pattern: a sequence of character
\* classes (atoms), with at most one capture group of its own that
\* participates in the matches starting with a character of captured;
\* outer is the group that splitString puts around the source
SplitSeparator(t, chars, atoms, captured, global) ==
    [t |-> t, chars |-> chars, atoms |-> atoms,
     groups |-> IF captured = {} THEN 0 ELSE 1, captured |-> captured,
     global |-> global, outer |-> FALSE]

\* the literals up to MaxSep characters; the patterns /\./ /./ /(\.)/ /(a)|\./
\* and /(.)/, each with and without the g flag
SplitSeparators ==
    {SplitSeparator("string", q, <<>>, {}, FALSE) : q \in SeqsUpTo(Chars, MaxSep)}
        \cup {SplitSeparator("regexp", <<>>, <<c[1]>>, c[2], g) :
                c \in {<<{"."}, {}>>, <<Chars, {}>>, <<{"."}, {"."}>>,
                       <<Chars, {"a"}>>, <<Chars, Chars>>},
                g \in BOOLEAN}

SplitProps ==
    [string : {[t |-> "null", v |-> <<>>], [t |-> "undefined", v |-> <<>>]}
                 \cup {[t |-> "string", v |-> q] : q \in SeqsUpTo(Chars, MaxStr)},
     separator : SplitSeparators,
     keepSeparator : {"unset", "true", "false"},
     fallback : {"unset", "EmptyState"},
     wrapper : {"none", "ul"},
     reverse : BOOLEAN]

\* the element of a split result that stands for a capture group that did not
\* participate in the match
SplitUndefined == <<"undefined">>

\* String.prototype.split with a string separator, from position p on
RECURSIVE StringSplit(_, _, _)
StringSplit(s, sep, p) ==
    IF sep = <<>>
    THEN [i \in 1..Len(s) |-> <<s[i]>>]
    ELSE
      LET found == {q \in p..(Len(s) - Len(sep) + 1) :
                        SubSeq(s, q, q + Len(sep) - 1) = sep}
      IN  IF found = {}
          THEN <<SubSeq(s, p, Len(s))>>
          ELSE LET q == CHOOSE q \in found : \A r \in found : q <= r
               IN  <<SubSeq(s, p, q - 1)>> \o StringSplit(s, sep, q + Len(sep))

\* the pattern matches s at position q
RegExpMatches(s, re, q) ==
    /\ q + Len(re.atoms) - 1 <= Len(s)
    /\ \A i \in 1..Len(re.atoms) : s[q + i - 1] \in re.atoms[i]

\* RegExp.prototype[Symbol.split] on a non-empty string: p is the end of the
\* last match, q the position tried; the captures of a match follow the text
\* before it
RECURSIVE RegExpSplit(_, _, _, _)
RegExpSplit(s, re, p, q) ==
    IF q > Len(s)
    THEN <<SubSeq(s, p, Len(s))>>
    ELSE IF ~RegExpMatches(s, re, q)
    THEN RegExpSplit(s, re, p, q + 1)
    ELSE
      LET e == q + Len(re.atoms)
          match == SubSeq(s, q, e - 1)
          captures ==
              (IF re.outer THEN <<match>> ELSE <<>>)
                  \o (IF re.groups = 0 THEN <<>>
                      ELSE IF Len(match) > 0 /\ match[1] \in re.captured
                      THEN <<match>>
                      ELSE <<SplitUndefined>>)
      IN  IF e = p
          THEN RegExpSplit(s, re, p, q + 1)
          ELSE <<SubSeq(s, p, q - 1)>> \o captures \o RegExpSplit(s, re, e, e)

\* every character of str escaped: a pattern source that matches str only
escapeRegExp(str) == [i \in 1..Len(str) |-> {str[i]}]

\* a default of true for keepSeparator
SplitKeep_DefaultTrue(keepSeparator) == keepSeparator # "false"

\* keepSeparator = false
SplitKeep(keepSeparator) == keepSeparator = "true"

\* splitString
splitString(string, separator, keepSeparator) ==
    IF string.t # "string" \/ Len(string.v) = 0
    THEN <<>>
    ELSE IF keepSeparator
    THEN
      LET regex ==
              IF separator.t = "regexp"
              THEN [separator EXCEPT !.outer = TRUE, !.global = TRUE]
              ELSE [separator EXCEPT !.t = "regexp", !.chars = <<>>,
                                     !.atoms = escapeRegExp(separator.chars),
                                     !.outer = TRUE, !.global = TRUE]
      IN  SelectSeq(RegExpSplit(string.v, regex, 1, 1), LAMBDA part : part # <<>>)
    ELSE IF separator.t = "regexp"
    THEN RegExpSplit(string.v, separator, 1, 1)
    ELSE StringSplit(string.v, separator.chars, 1)

\* the function Split: <For {...props} each={parts}>{children}</For>
Split(props) ==
    LET parts == splitString(props.string, props.separator,
                             SplitKeep(props.keepSeparator))
        for == For([each |-> [t |-> "array", v |-> parts], children |-> "unkeyed",
                    keyExtractor |-> "none", fallback |-> props.fallback,
                    wrapper |-> props.wrapper, reverse |-> props.reverse])
    IN  [parts |-> parts, calls |-> for.calls, result |-> for.result]

\* the render pass of one <Split ...>
SplitRender(props) ==
    /\ sp_props' = props
    /\ sp_parts' = Split(props).parts
    /\ sp_calls' = Split(props).calls
    /\ sp_result' = Split(props).result
    /\ UNCHANGED <<awVars, vsVars, tmVars, foVars, swVars, shVars, qbVars, rpVars, dyVars, coVars>>

SplitInit ==
    /\ sp_props = [string |-> [t |-> "undefined", v |-> <<>>],
                   separator |-> SplitSeparator("string", <<>>, <<>>, {}, FALSE),
                   keepSeparator |-> "unset", fallback |-> "unset",
                   wrapper |-> "none", reverse |-> FALSE]
    /\ sp_parts = <<>>
    /\ sp_calls = <<>>
    /\ sp_result = [kind |-> "none", content |-> "null", wrapper |-> "none",
                    elements |-> <<>>]

\* one render pass of the instance is followed
SplitNext ==
    /\ sp_result.kind = "none"
    /\ \E props \in SplitProps : SplitRender(props)

----------------------------------------------------------------------------
(* Dynamic *)

\* component is null, undefined, false, a tag name or a function component;
\* names are the other props the caller wrote, fallback among them or not
DynamicProps ==
    [component : {JsNull, JsUndefined, JsBoolean(FALSE), JsString(1),
                  JsValue("function", 0, FALSE, "Function.prototype")},
     fallback : {"unset", "node", "fn"},
     names : SUBSET {"href", "onClick", "children"}]

\* a rest that leaves out component only
DynamicRest_KeepsFallback(props) ==
    props.names \cup (IF props.fallback = "unset" THEN {} ELSE {"fallback"})

\* { component, fallback = null, ...props }: the names left in props
DynamicRest(props) == props.names

\* the function Dynamic: what it returns and the fallback invocations
Dynamic(props) ==
    IF ~ToBoolean(props.component)
    THEN [calls |-> resolveNode(props.fallback).calls,
          result |-> [kind |-> "fallback",
                      content |-> resolveNode(props.fallback).content,
                      type |-> JsNull, props |-> {}]]
    ELSE [calls |-> <<>>,
          result |-> [kind |-> "element", content |-> "null",
                      type |-> props.component, props |-> DynamicRest(props)]]

\* the render pass of one <Dynamic ...>
DynamicRender(props) ==
    /\ dy_props' = props
    /\ dy_calls' = Dynamic(props).calls
    /\ dy_result' = Dynamic(props).result
    /\ UNCHANGED <<awVars, vsVars, tmVars, foVars, swVars, shVars, qbVars, rpVars, spVars, coVars>>

DynamicInit ==
    /\ dy_props = [component |-> JsUndefined, fallback |-> "unset", names |-> {}]
    /\ dy_calls = <<>>
    /\ dy_result = [kind |-> "none", content |-> "null", type |-> JsNull, props |-> {}]

\* one render pass of the instance is followed
DynamicNext ==
    /\ dy_result.kind = "none"
    /\ \E props \in DynamicProps : DynamicRender(props)

----------------------------------------------------------------------------
(* ClientOnly *)

ClientOnlyProps == [children : {"node", "fn"}, fallback : {"unset", "node", "fn"}]

\* return statements that do not look at isClient
ClientOnlyView_Eager(props, isClient) ==
    [kind |-> "children", content |-> props.children,
     calls |-> IF props.children = "fn" THEN <<"children">> ELSE <<>>]

\* the return statements of ClientOnly
ClientOnlyView(props, isClient) ==
    IF ~isClient
    THEN [kind |-> "fallback", content |-> resolveNode(props.fallback).content,
          calls |-> [i \in 1..Len(resolveNode(props.fallback).calls) |-> "fallback"]]
    ELSE [kind |-> "children", content |-> props.children,
          calls |-> IF props.children = "fn" THEN <<"children">> ELSE <<>>]

\* a render on the server: useState(false), and no effect ever runs
ClientOnlyServerRender(props) ==
    /\ co_phase \in {"init", "server"}
    /\ co_passes < MaxPasses
    /\ co_phase' = "server"
    /\ co_props' = props
    /\ co_passes' = co_passes + 1
    /\ co_calls' = ClientOnlyView(props, FALSE).calls
    /\ co_rendered' = [kind |-> ClientOnlyView(props, FALSE).kind,
                       content |-> ClientOnlyView(props, FALSE).content]
    /\ UNCHANGED <<co_isClient, co_queued, co_effectPending, co_effectRan>>
    /\ UNCHANGED coOthers

\* the first render pass on the client, a hydration when the server rendered
ClientOnlyMount(props) ==
    /\ co_phase \in {"init", "server"}
    /\ co_passes < MaxPasses
    /\ co_phase' = "mounted"
    /\ co_props' = props
    /\ co_isClient' = FALSE
    /\ co_passes' = co_passes + 1
    /\ co_calls' = ClientOnlyView(props, FALSE).calls
    /\ co_rendered' = [kind |-> ClientOnlyView(props, FALSE).kind,
                       content |-> ClientOnlyView(props, FALSE).content]
    /\ co_effectPending' = TRUE
    /\ UNCHANGED <<co_queued, co_effectRan>>
    /\ UNCHANGED coOthers

\* useEffect(() => { setIsClient(true); }, [])
ClientOnlyFlushEffects ==
    /\ co_phase = "mounted"
    /\ co_effectPending
    /\ co_effectPending' = FALSE
    /\ co_effectRan' = TRUE
    /\ co_queued' = TRUE
    /\ UNCHANGED <<co_phase, co_props, co_isClient, co_passes, co_calls, co_rendered>>
    /\ UNCHANGED coOthers

\* a later render pass (a parent re-render, or the one setIsClient scheduled):
\* the queued update is applied, and the effect with no dependencies is not
\* scheduled again
ClientOnlyRender(props) ==
    /\ co_phase = "mounted"
    /\ ~co_effectPending
    /\ co_passes < MaxPasses
    /\ co_props' = props
    /\ co_isClient' = (co_queued \/ co_isClient)
    /\ co_queued' = FALSE
    /\ co_passes' = co_passes + 1
    /\ co_calls' = ClientOnlyView(props, co_isClient').calls
    /\ co_rendered' = [kind |-> ClientOnlyView(props, co_isClient').kind,
                       content |-> ClientOnlyView(props, co_isClient').content]
    /\ UNCHANGED <<co_phase, co_effectPending, co_effectRan>>
    /\ UNCHANGED coOthers

ClientOnlyUnmount ==
    /\ co_phase = "mounted"
    /\ ~co_effectPending
    /\ co_phase' = "unmounted"
    /\ UNCHANGED <<co_props, co_isClient, co_queued, co_effectPending, co_effectRan,
                   co_passes, co_calls, co_rendered>>
    /\ UNCHANGED coOthers

ClientOnlyInit ==
    /\ co_phase = "init"
    /\ co_props = [children |-> "node", fallback |-> "unset"]
    /\ co_isClient = FALSE
    /\ co_queued = FALSE
    /\ co_effectPending = FALSE
    /\ co_effectRan = FALSE
    /\ co_passes = 0
    /\ co_calls = <<>>
    /\ co_rendered = [kind |-> "none", content |-> "null"]

ClientOnlyNext ==
    \/ \E props \in ClientOnlyProps : ClientOnlyServerRender(props)
    \/ \E props \in ClientOnlyProps : ClientOnlyMount(props)
    \/ ClientOnlyFlushEffects
    \/ \E props \in ClientOnlyProps : ClientOnlyRender(props)
    \/ ClientOnlyUnmount

----------------------------------------------------------------------------
(* Specifications: one component instance at a time *)

Init ==
    /\ AwaitInit
    /\ VisibleInit
    /\ TimeoutInit
    /\ ForInit
    /\ SwitchInit
    /\ ShowInit
    /\ QueryBoundaryInit
    /\ RepeatInit
    /\ SplitInit
    /\ DynamicInit
    /\ ClientOnlyInit

SpecAwait == Init /\ [][AwaitNext]_vars

SpecVisible == Init /\ [][VisibleNext]_vars

SpecTimeout == Init /\ [][TimeoutNext]_vars

SpecFor == Init /\ [][ForNext]_vars

SpecSwitch == Init /\ [][SwitchNext]_vars

SpecShow == Init /\ [][ShowNext]_vars

SpecQueryBoundary == Init /\ [][QueryBoundaryNext]_vars

\* the timer service fires a pending timer, and React runs the effects and the
\* re-renders it has scheduled
SpecTimeoutFair ==
    /\ SpecTimeout
    /\ WF_vars(\E i \in 1..MaxTimers : TimeoutFire(i))
    /\ WF_vars(TimeoutFlushEffects)
    /\ WF_vars(TimeoutUpdate)

SpecRepeat == Init /\ [][RepeatNext]_vars

SpecSplit == Init /\ [][SplitNext]_vars

SpecDynamic == Init /\ [][DynamicNext]_vars

SpecClientOnly == Init /\ [][ClientOnlyNext]_vars

----------------------------------------------------------------------------
(* Await: claims *)

\* nothing is scheduled or queued, and the reactions of the current promise have run
AwaitQuiescent ==
    /\ aw_phase = "mounted"
    /\ ~aw_effectPending
    /\ aw_queue = <<>>
    /\ IsPromise(aw_promise) =>
          \/ aw_settled[aw_promise] = "pending"
          \/ aw_effects[Len(aw_effects)].done

AwaitOutcome(p) ==
    IF aw_settled[p] = "fulfilled"
    THEN [status |-> "fulfilled", payload |-> Val(p)]
    ELSE [status |-> "rejected", payload |-> Err(p)]

AwaitVisible(state) == [status |-> state.status, payload |-> state.payload]

\* C1: a promise that was replaced by another input, or whose component was torn
\* down, before it settled never puts its outcome into the committed state (so
\* its value or reason is never rendered); and once the current promise has
\* settled and its reactions have been rendered, the state and the output are
\* the current promise's outcome.
C1_RaceSafe ==
    /\ \A i \in DOMAIN aw_effects :
          aw_effects[i].superseded => ~(aw_state.src = i /\ aw_state.status # "pending")
    /\ (AwaitQuiescent /\ IsPromise(aw_promise) /\ aw_settled[aw_promise] # "pending") =>
          /\ AwaitVisible(aw_state) = AwaitOutcome(aw_promise)
          /\ aw_state.src = Len(aw_effects)
          /\ aw_rendered = AwaitView(aw_state, aw_errorFn, aw_childrenFn)

\* a superseded promise has settled and its reaction has run, and the state shown
\* is the outcome of the promise that replaced it
C1_Witness ==
    /\ aw_phase = "mounted"
    /\ \E i \in DOMAIN aw_effects :
          /\ aw_effects[i].superseded
          /\ aw_effects[i].done
          /\ aw_effects[i].promise # aw_promise
    /\ IsPromise(aw_promise)
    /\ aw_state.status = "fulfilled"
    /\ aw_state.payload = Val(aw_promise)
    /\ aw_rendered.kind = "children"

\* C2: while the current input is a promise that has not settled, every render
\* pass performed with it returns loading.
C2_OnlyLoadingWhileUnsettled ==
    (aw_phase = "mounted" /\ IsPromise(aw_promise) /\ aw_settled[aw_promise] = "pending")
        => aw_rendered.kind = "loading"

\* C3: every render pass performed with a non-promise input v returns children
\* with v.
C3_NonPromiseRendersChildren ==
    (aw_phase = "mounted" /\ ~IsPromise(aw_promise))
        => aw_rendered = [kind |-> "children",
                          arg |-> IF aw_childrenFn THEN Raw(aw_promise) ELSE NoPayload]

\* C4: while the input stays one promise p, a state holding p's outcome never
\* changes again (not to pending, not to the other outcome), and the state
\* becomes a settled one only when p has settled, and then it is p's outcome.
C4_SettlesOnce ==
    [][(/\ aw_phase = "mounted" /\ aw_phase' = "mounted"
        /\ aw_promise' = aw_promise /\ IsPromise(aw_promise))
       => /\ (aw_state.status # "pending"
                /\ aw_state.payload \in {Val(aw_promise), Err(aw_promise)})
               => AwaitVisible(aw_state') = AwaitVisible(aw_state)
          /\ (AwaitVisible(aw_state') # AwaitVisible(aw_state)
                /\ aw_state'.status # "pending")
               => /\ aw_settled[aw_promise] # "pending"
                  /\ AwaitVisible(aw_state') = AwaitOutcome(aw_promise)]_vars

\* the second promise supplied to the instance has rejected and the rejection
\* has been rendered
C4_Witness ==
    /\ aw_phase = "mounted"
    /\ IsPromise(aw_promise)
    /\ Len(aw_effects) >= 2
    /\ aw_state = Rejected(Err(aw_promise), Len(aw_effects))
    /\ aw_queue = <<>>

\* C5 (state part): a rejection of the current promise is recorded as
\* rejected(e) and rendered as the error prop (given e when it is a function);
\* the promise chain the effect builds never ends rejected.
C5_Captured ==
    /\ \A i \in DOMAIN aw_effects : aw_effects[i].chain # "rejected"
    /\ (aw_phase = "mounted" /\ IsPromise(aw_promise) /\ aw_state.status = "rejected")
          => aw_rendered = [kind |-> "error",
                            arg |-> IF aw_errorFn THEN aw_state.payload ELSE NoPayload]
    /\ (AwaitQuiescent /\ IsPromise(aw_promise) /\ aw_settled[aw_promise] = "rejected")
          => /\ aw_state.status = "rejected"
             /\ aw_state.payload = Err(aw_promise)

\* C5 (step part): a render pass that applies state updates while the input is
\* a promise that has rejected does not return children.
C5_NoChildren ==
    (/\ aw_phase' = "mounted" /\ aw_promise' = aw_promise /\ IsPromise(aw_promise)
     /\ aw_settled[aw_promise] = "rejected"
     /\ aw_queue # <<>> /\ aw_queue' = <<>>)
        => aw_rendered'.kind # "children"

\* C5: a rejection of the current promise is captured as rejected(e), rendered
\* through the error prop and never rethrown, and children is not rendered.
C5_RejectionCaptured == []C5_Captured /\ [][C5_NoChildren]_vars

\* the current promise has rejected and the error function has been given the reason
C5_Witness ==
    /\ AwaitQuiescent
    /\ IsPromise(aw_promise)
    /\ aw_settled[aw_promise] = "rejected"
    /\ aw_errorFn
    /\ aw_rendered = [kind |-> "error", arg |-> Err(aw_promise)]
    /\ aw_effects[Len(aw_effects)].chain = "fulfilled"

----------------------------------------------------------------------------
(* Visible: claims *)

VisibleQueued(hook) == \E i \in DOMAIN vs_queue : vs_queue[i][1] = hook

\* the client-mount effect of the instance has run
VisibleClientEffectRan ==
    vs_phase # "init" /\ vs_env # "server" /\ "client" \notin vs_pendingEffects

VisibleGated == vs_phase = "mounted" /\ vs_isClient /\ VisibleIsSupported

\* C6 (state part): with once=true the anchor holds the fallback as long as no
\* intersecting notification has been processed, and children in the render
\* passes after one has been.
C6_FallbackUntilFirstHit ==
    (VisibleGated /\ vs_props.once) =>
        /\ ~vs_everHit => vs_rendered = [anchor |-> TRUE, content |-> "fallback"]
        /\ (vs_everHit /\ ~VisibleQueued("hasBeenVisible"))
              => vs_rendered = [anchor |-> TRUE, content |-> "children"]

\* C6 (step part): the 'has ever been visible' flag never goes back to false, and
\* once children are rendered under once=true every later render pass under
\* once=true renders them.
C6_ChildrenStay ==
    /\ vs_hasBeenVisible => vs_hasBeenVisible'
    /\ (VisibleGated /\ vs_props.once /\ vs_rendered.content = "children"
          /\ vs_phase' = "mounted" /\ vs_props'.once)
         => vs_rendered' = vs_rendered

\* C6: Visible with once=true renders the fallback until the first intersecting
\* notification and children in every render pass from then on.
C6_OnceKeepsChildren == []C6_FallbackUntilFirstHit /\ [][C6_ChildrenStay]_vars

\* children are on screen under once=true although the most recent notification,
\* delivered to a later observer, was not intersecting
C6_Witness ==
    /\ VisibleGated
    /\ vs_props.once
    /\ vs_everHit
    /\ vs_lastNotified = "away"
    /\ ~vs_isVisible
    /\ vs_queue = <<>>
    /\ vs_rendered = [anchor |-> TRUE, content |-> "children"]

\* C7: once an observer created with once=true has disconnected itself at an
\* intersecting notification, and once stays true, no observer of the instance
\* is connected, no notification is processed and no onVisibilityChange is
\* invoked in any later step.
C7_StaysUnobserved ==
    [][(vs_frozen /\ vs_onceAlways /\ vs_onceAlways')
         => /\ \A i \in DOMAIN vs_observers' : ~vs_observers'[i].connected
            /\ vs_notified' = vs_notified
            /\ vs_calls' = vs_calls]_vars

\* C8 (state part): with once=false, once the render pass after a notification
\* has run, the anchor holds children iff the most recent notification was
\* intersecting.
C8_FollowsLastNotification ==
    (VisibleGated /\ ~vs_props.once /\ ~VisibleQueued("isVisible")) =>
        vs_rendered = [anchor |-> TRUE,
                       content |-> IF vs_lastNotified = "intersecting"
                                   THEN "children" ELSE "fallback"]

\* C8 (step part): a notification invokes the observer's onVisibilityChange with
\* the new boolean, and an observer created with once=false stays connected.
C8_NotifiesAndKeepsObserving ==
    (vs_notified' # vs_notified) =>
        \A i \in DOMAIN vs_observers :
            vs_observers[i].connected =>
                /\ vs_observers[i].onVisibilityChange # "none" =>
                      /\ vs_calls' = vs_calls + 1
                      /\ vs_lastCall' = <<vs_observers[i].onVisibilityChange,
                                          vs_lastNotified' = "intersecting">>
                /\ ~vs_observers[i].once => vs_observers'[i].connected

\* C8: Visible with once=false keeps observing, shows children iff the most
\* recent notification was intersecting, and reports every notification.
C8_TogglesWithIntersection ==
    []C8_FollowsLastNotification /\ [][C8_NotifiesAndKeepsObserving]_vars

\* after an intersecting and then a non-intersecting notification, both reported
\* to f1, the anchor holds the fallback again and the observer is still connected
C8_Witness ==
    /\ VisibleGated
    /\ ~vs_props.once
    /\ vs_everHit
    /\ vs_hasBeenVisible
    /\ vs_lastNotified = "away"
    /\ vs_calls = 2
    /\ vs_lastCall = <<"f1", FALSE>>
    /\ vs_queue = <<>>
    /\ vs_rendered = [anchor |-> TRUE, content |-> "fallback"]
    /\ \E i \in DOMAIN vs_observers : vs_observers[i].connected

\* C9: without IntersectionObserver, or before the client-mount effect has run,
\* the render pass returns children directly (no anchor, no fallback) and the
\* instance has created no observer.
C9_DegradesToChildren ==
    (vs_phase = "mounted" /\ (~VisibleIsSupported \/ ~VisibleClientEffectRan)) =>
        /\ vs_rendered = [anchor |-> FALSE, content |-> "children"]
        /\ vs_observers = <<>>
        /\ ~vs_ref

\* an instance without IntersectionObserver, re-rendered with once=false after
\* its effects have run, shows children directly
C9_Witness ==
    /\ vs_phase = "mounted"
    /\ vs_env = "native"
    /\ vs_isClient
    /\ vs_hasBeenVisible
    /\ ~vs_props.once
    /\ vs_queue = <<>>
    /\ vs_rendered = [anchor |-> FALSE, content |-> "children"]

----------------------------------------------------------------------------
(* Timeout: claims *)

\* C10 (state part): until a timer has fired the state is the initial one, ready
\* in mode "before" (children) and not ready in mode "after" (fallback or
\* nothing); when one timer has fired and the render pass it scheduled has run,
\* the state is the opposite one.
C10_PolarityKept ==
    /\ (tm_phase = "mounted" /\ tm_fired = 0) =>
          /\ tm_ready = (tm_mode0 = "before")
          /\ tm_mode0 = "before" => tm_rendered = "children"
          /\ tm_mode0 = "after" => tm_rendered \in {"fallback", "null"}
    /\ (tm_phase = "mounted" /\ tm_fired = 1 /\ tm_toggles = 0) =>
          /\ tm_ready = (tm_mode0 = "after")
          /\ tm_mode0 = "before" => tm_rendered \in {"fallback", "null"}
          /\ tm_mode0 = "after" => tm_rendered = "children"

\* C10: the polarity of Timeout: the initial state is kept until the timer
\* fires, one firing gives the opposite state, and an instance that stays
\* mounted eventually has its timer fired and the update rendered.
C10_Polarity ==
    /\ []C10_PolarityKept
    /\ (tm_phase = "mounted") ~>
          \/ tm_phase = "unmounted"
          \/ (tm_fired >= 1 /\ tm_toggles = 0)

\* mounted in mode "before", the timer has fired and the instance now renders nothing
C10_Witness ==
    /\ tm_phase = "mounted"
    /\ tm_mode0 = "before"
    /\ tm_props.mode = "before"
    /\ tm_fired = 1
    /\ tm_toggles = 0
    /\ ~tm_ready
    /\ tm_rendered = "null"

\* the effect's cleanup has run for the unmounted instance
TimeoutTornDown ==
    /\ tm_phase = "unmounted"
    /\ ~tm_effectPending

\* C11 (state part): once the instance is torn down no timer of it is pending
C11_NoPendingTimer ==
    TimeoutTornDown => \A i \in DOMAIN tm_timers : ~tm_timers[i].pending

\* C11 (step part): no step taken after the unmount flips the ready state, and
\* no step taken after the teardown fires a timer or invokes onTimeout
C11_NothingLater ==
    /\ tm_phase = "unmounted" =>
          /\ tm_ready' = tm_ready
          /\ tm_toggles' = tm_toggles
          /\ tm_rendered' = tm_rendered
    /\ TimeoutTornDown =>
          /\ tm_fired' = tm_fired
          /\ tm_calls' = tm_calls

\* C11: a Timeout torn down before its timer fires has the timer cancelled: in
\* no later state is onTimeout invoked or the ready state flipped.
C11_CancelledOnTeardown ==
    /\ []C11_NoPendingTimer
    /\ [][C11_NothingLater]_vars

\* torn down with a callback supplied, before the timer fired: the timer is
\* cancelled and the callback was never invoked
C11_Witness ==
    /\ TimeoutTornDown
    /\ Len(tm_timers) = 1
    /\ tm_timers[1].onTimeout = "g1"
    /\ ~tm_timers[1].pending
    /\ tm_fired = 0
    /\ tm_calls = 0

\* C12: over the lifetime of one mounted instance the timer fires once: the
\* ready state is flipped at most once and onTimeout is invoked at most once,
\* whatever re-renders happen.
C12_FiresOnce ==
    tm_phase = "mounted" =>
        /\ tm_fired <= 1
        /\ tm_calls <= 1

----------------------------------------------------------------------------
(* For: claims *)

\* the original index of the element emitted at position i of n
ForEmittedIndex(reverse, n, i) == IF reverse THEN n - i ELSE i - 1

\* C13: for every sequence S and both values of reverse, children is invoked
\* exactly once per element with (item, originalIndex, S): each pair
\* (S[k], k) is passed exactly once, the order under reverse is the exact
\* reverse of the order without it, the third argument is S, and S is left as
\* it was.
C13_OncePerElement ==
    (fo_result.kind # "none" /\ fo_props.each.t = "array" /\ fo_props.each.v # <<>>) =>
        LET S == fo_props.each.v
            n == Len(S)
            other == For([fo_props EXCEPT !.reverse = ~fo_props.reverse]).calls
        IN  /\ Len(fo_calls) = n
            /\ \A k \in 1..n :
                  Cardinality({i \in 1..n : fo_calls[i][1] = S[k]
                                            /\ fo_calls[i][2] = k - 1}) = 1
            /\ \A i \in 1..n : fo_calls[i][3] = S
            /\ \A i \in 1..n :
                  fo_calls[i][2] = ForEmittedIndex(fo_props.reverse, n, i)
            /\ Len(other) = n
            /\ \A i \in 1..n : fo_calls[i] = other[n + 1 - i]
            /\ Len(fo_result.elements) = n
            /\ \A i \in 1..n :
                  fo_result.elements[i].child.content = <<fo_calls[i][1], fo_calls[i][2]>>
            /\ fo_each = fo_props.each

\* a three-element array with a repeated item rendered in reverse: the first
\* invocation is for the last element, with index 2 and the array as passed
C13_Witness ==
    /\ fo_result.kind = "elements"
    /\ fo_props.reverse
    /\ fo_props.each.v = <<"a", "b", "b">>
    /\ fo_calls[1] = <<"b", 2, <<"a", "b", "b">>>>
    /\ fo_calls[3] = <<"a", 0, <<"a", "b", "b">>>>
    /\ fo_each.v = <<"a", "b", "b">>

\* C14: with each null, undefined or of length zero, For yields exactly the
\* fallback (nothing when it is unset) for every wrapper, reverse and
\* keyExtractor: children and keyExtractor are not invoked and no wrapper is
\* rendered.
C14_EmptyYieldsFallback ==
    (fo_result.kind # "none"
     /\ (fo_props.each.t \in {"null", "undefined"} \/ Len(fo_props.each.v) = 0)) =>
        /\ fo_result.kind = "fallback"
        /\ fo_result.content =
              (IF fo_props.fallback = "unset" THEN "null" ELSE fo_props.fallback)
        /\ fo_result.wrapper = "none"
        /\ fo_result.elements = <<>>
        /\ fo_calls = <<>>
        /\ fo_keyCalls = <<>>

\* an empty array with a wrapper, reverse and a keyExtractor: the fallback alone
C14_Witness ==
    /\ fo_result.kind = "fallback"
    /\ fo_props.each = [t |-> "array", v |-> <<>>]
    /\ fo_props.wrapper = "ul"
    /\ fo_props.reverse
    /\ fo_props.keyExtractor = "byItem"
    /\ fo_props.fallback = "EmptyState"
    /\ fo_result.content = "EmptyState"

\* C15: the key of each emitted node is keyExtractor(item, originalIndex) when
\* a keyExtractor is given, otherwise the key of the element children returned
\* when it has one, otherwise the original index, also under reverse.
C15_KeyPriority ==
    (fo_result.kind \in {"elements", "wrapped"}) =>
        LET S == fo_props.each.v
            n == Len(S)
        IN  \A i \in 1..Len(fo_result.elements) :
              LET j == ForEmittedIndex(fo_props.reverse, n, i)
                  item == S[j + 1]
                  key == fo_result.elements[i].key
              IN  /\ fo_props.keyExtractor = "byItem" => key = KeyString("id-" \o item)
                  /\ fo_props.keyExtractor = "byIndex" =>
                        key = KeyString(NumberToString(j))
                  /\ (fo_props.keyExtractor = "none" /\ fo_props.children = "keyed") =>
                        key = KeyString(item)
                  /\ (fo_props.keyExtractor = "none" /\ fo_props.children # "keyed") =>
                        key = KeyString(NumberToString(j))

\* reversed, no keyExtractor, elements without keys: the first node emitted has
\* the key of the last position
C15_Witness ==
    /\ fo_result.kind = "wrapped"
    /\ fo_props.reverse
    /\ fo_props.keyExtractor = "none"
    /\ fo_props.children = "unkeyed"
    /\ Len(fo_props.each.v) = 3
    /\ fo_result.elements[1].key = KeyString("2")
    /\ fo_result.elements[3].key = KeyString("0")

----------------------------------------------------------------------------
(* Switch: claims *)

Least(S) == CHOOSE x \in S : \A y \in S : x <= y

Greatest(S) == CHOOSE x \in S : \A y \in S : y <= x

\* the declared positions of the Match entries whose condition converts to true
SwitchTruthyMatches(children) ==
    {i \in 1..Len(children) :
        children[i].type = "Match" /\ ToBoolean(children[i].when)}

\* the declared positions of the Default entries
SwitchDefaults(children) ==
    {i \in 1..Len(children) : children[i].type = "Default"}

\* C16: Switch renders the payload of the first Match, in declaration order,
\* whose condition is truthy, and only that: a function payload is called with
\* the condition value, no other payload is called, and the entries declared
\* after it and the Default entries change nothing.
C16_FirstMatchWins ==
    (sw_result.kind # "none" /\ SwitchTruthyMatches(sw_props.children) # {}) =>
        LET i == Least(SwitchTruthyMatches(sw_props.children))
            match == sw_props.children[i]
            alone == Switch([sw_props EXCEPT !.children = <<match>>]).result
        IN  /\ sw_result.kind = "match"
            /\ sw_result.entry = i
            /\ sw_result.content = match.children
            /\ sw_result.content = alone.content
            /\ sw_result.arg = alone.arg
            /\ match.children = "fn" =>
                  /\ sw_result.arg = match.when
                  /\ \A k \in 1..Len(sw_calls) :
                        sw_calls[k][1] # 0 => sw_calls[k] = <<i, match.when>>
                  /\ \E k \in 1..Len(sw_calls) : sw_calls[k] = <<i, match.when>>
            /\ match.children = "node" =>
                  \A k \in 1..Len(sw_calls) : sw_calls[k][1] = 0

\* conditions false, true, true with a Default declared first: the second entry
\* after the Default renders
C16_Witness ==
    /\ sw_result.kind = "match"
    /\ Len(sw_props.children) = 3
    /\ sw_props.children[1].type = "Default"
    /\ sw_props.children[2].type = "Match"
    /\ sw_props.children[2].when = JsBoolean(TRUE)
    /\ sw_props.children[2].children = "fn"
    /\ sw_props.children[3].type = "Match"
    /\ sw_props.children[3].when = JsString(1)
    /\ sw_result.entry = 2
    /\ sw_result.arg = JsBoolean(TRUE)

\* C17: when no Match condition is truthy the result is the content of the last
\* declared Default; without a Default it is the fallback prop, or nothing;
\* other children contribute nothing.
C17_LastDefaultElseFallback ==
    (sw_result.kind # "none" /\ SwitchTruthyMatches(sw_props.children) = {}) =>
        LET defaults == SwitchDefaults(sw_props.children)
        IN  /\ defaults # {} =>
                  /\ sw_result.kind = "default"
                  /\ sw_result.entry = Greatest(defaults)
            /\ defaults = {} =>
                  /\ sw_result.kind = "fallback"
                  /\ sw_result.content =
                        (IF sw_props.fallback = "unset" THEN "null"
                         ELSE sw_props.fallback)
            /\ \A k \in 1..Len(sw_calls) : sw_calls[k][1] = 0
            /\ (sw_props.fallback = "fn") = (sw_calls # <<>>)

\* two Default entries around a Match with a false condition, and a fallback
\* prop: the content of the second Default renders
C17_Witness ==
    /\ sw_result.kind = "default"
    /\ sw_result.entry = 3
    /\ Len(sw_props.children) = 3
    /\ sw_props.children[1].type = "Default"
    /\ sw_props.children[2].type = "Match"
    /\ sw_props.children[2].when = JsBoolean(FALSE)
    /\ sw_props.children[3].type = "Default"
    /\ sw_props.fallback = "node"

\* Show renders children for the value
ShowRendersChildren(value) ==
    Show([when |-> value, children |-> "node", fallback |-> "unset"]).result.kind
        = "children"

\* C18: a Match wins in Switch exactly when Show would render children for its
\* condition: the entry Switch renders is the first Match whose condition Show
\* takes as truthy, and none renders when there is no such Match.
C18_SameTruthinessAsShow ==
    (sw_result.kind # "none") =>
        LET shown == {i \in 1..Len(sw_props.children) :
                         /\ sw_props.children[i].type = "Match"
                         /\ ShowRendersChildren(sw_props.children[i].when)}
        IN  /\ shown # {} => sw_result.kind = "match" /\ sw_result.entry = Least(shown)
            /\ shown = {} => sw_result.kind # "match"

----------------------------------------------------------------------------
(* Show: claims *)

\* null, undefined, false, zero, NaN, the empty string, an array of length
\* zero, an empty Map or Set, and a plain object without own keys
ShowFalsy ==
    {JsNull, JsUndefined, JsBoolean(FALSE), JsNumber(0), JsValue("bigint", 0, FALSE, "none"),
     JsNaN, JsString(0),
     JsArray(0), JsMap(0), JsSet(0), JsObject(0)}

\* C19: Show renders fallback (or nothing) exactly for null, undefined, false,
\* 0, NaN, the empty string, a zero-length array, an empty Map or Set and a
\* plain object with zero own keys, and children for every other value; a
\* function children is invoked with when in the truthy case only.
C19_ShowTruthiness ==
    (sh_result.kind # "none") =>
        /\ sh_props.when \in ShowFalsy =>
              /\ sh_result.kind = "fallback"
              /\ sh_result.content =
                    (IF sh_props.fallback = "unset" THEN "null" ELSE sh_props.fallback)
              /\ sh_calls = <<>>
        /\ sh_props.when \notin ShowFalsy =>
              /\ sh_result.kind = "children"
              /\ sh_result.content = sh_props.children
              /\ sh_props.children = "fn" =>
                    sh_calls = <<sh_props.when>> /\ sh_result.arg = sh_props.when
              /\ sh_props.children = "node" => sh_calls = <<>>

\* an empty Map with a function children: the fallback, and no invocation
C19_Witness ==
    /\ sh_result.kind = "fallback"
    /\ sh_props.when = JsMap(0)
    /\ sh_props.children = "fn"
    /\ sh_props.fallback = "Fallback"
    /\ sh_result.content = "Fallback"
    /\ sh_calls = <<>>

----------------------------------------------------------------------------
(* QueryBoundary: claims *)

\* C20: QueryBoundary renders nothing when when is false or query is null or
\* undefined, whatever the other props; otherwise a true isPending renders
\* loading, before isError, isEmpty and data are looked at.
C20_NothingThenLoading ==
    (qb_result.kind # "none") =>
        /\ (qb_props.when = "false" \/ qb_props.query.t \in {"null", "undefined"}) =>
              /\ qb_result.kind = "nothing"
              /\ qb_result.content = "null"
              /\ qb_calls = <<>>
        /\ (qb_props.when # "false" /\ qb_props.query.t = "object"
            /\ qb_props.query.isPending = "true") =>
              /\ qb_result.kind = "loading"
              /\ qb_result.content =
                    (IF qb_props.loading = "unset" THEN "null" ELSE qb_props.loading)
              /\ qb_calls = (IF qb_props.loading = "fn" THEN <<"loading">> ELSE <<>>)

\* a query that is pending and in error, without data: loading renders
C20_Witness ==
    /\ qb_result.kind = "loading"
    /\ qb_props.when = "unset"
    /\ qb_props.query.isPending = "true"
    /\ qb_props.query.isError = "true"
    /\ qb_props.query.isEmpty = "true"
    /\ qb_props.query.data = JsUndefined
    /\ qb_props.loading = "node"
    /\ qb_props.error = "node"

\* the query is present, rendered and not pending
QueryNotPending ==
    /\ qb_result.kind # "none"
    /\ qb_props.when # "false"
    /\ qb_props.query.t = "object"
    /\ qb_props.query.isPending # "true"

\* isEmptyFn(data) for the props of the render pass
QueryDataEmpty == QueryIsEmptyFn(qb_props.isEmptyFn, qb_props.query.data)

\* C21 as stated: for a non-pending query with isError true, error renders iff
\* isEmptyFn(data) is true, also when query.isEmpty is true, and children
\* render when the data is not empty.
C21_ErrorIffNoDataElseChildren ==
    (QueryNotPending /\ qb_props.query.isError = "true") =>
        /\ (qb_result.kind = "error") = QueryDataEmpty
        /\ ~QueryDataEmpty => qb_result.kind = "children"

\* C21 (amended): for a non-pending query with isError true, error renders iff
\* isEmptyFn(data) is true, also when query.isEmpty is true; when the data is
\* not empty the error view is suppressed and the emptiness step decides:
\* the empty view when query.isEmpty is true, children otherwise.
C21_ErrorIffNoData ==
    (QueryNotPending /\ qb_props.query.isError = "true") =>
        /\ (qb_result.kind = "error") = QueryDataEmpty
        /\ QueryDataEmpty =>
              /\ qb_result.content =
                    (IF qb_props.error = "unset" THEN "null" ELSE qb_props.error)
              /\ qb_calls = (IF qb_props.error = "fn" THEN <<"error">> ELSE <<>>)
        /\ ~QueryDataEmpty =>
              qb_result.kind =
                 (IF qb_props.query.isEmpty = "true" THEN "empty" ELSE "children")

\* an error without data and with isEmpty true: the error view, not the empty one
C21_Witness ==
    /\ QueryNotPending
    /\ qb_props.query.isError = "true"
    /\ qb_props.query.isEmpty = "true"
    /\ qb_props.query.data = JsUndefined
    /\ qb_props.error = "node"
    /\ qb_props.empty = "node"
    /\ qb_result.kind = "error"

\* C22: in the emptiness step an explicit query.isEmpty takes precedence over
\* isEmptyFn(data): without pending and error, isEmpty true renders the empty
\* view also for non-empty data, isEmpty false renders children also for empty
\* data, and isEmptyFn decides only when the flag is unset.
C22_FlagBeforeFn ==
    (QueryNotPending /\ qb_props.query.isError # "true") =>
        /\ qb_props.query.isEmpty = "true" => qb_result.kind = "empty"
        /\ qb_props.query.isEmpty = "false" => qb_result.kind = "children"
        /\ qb_props.query.isEmpty = "unset" =>
              (qb_result.kind = "empty") = QueryDataEmpty
        /\ qb_result.kind \in {"empty", "children"}
        /\ qb_result.kind = "empty" =>
              /\ qb_result.content =
                    (IF qb_props.empty = "unset" THEN "null" ELSE qb_props.empty)
              /\ qb_calls = (IF qb_props.empty = "fn" THEN <<"empty">> ELSE <<>>)
        /\ (qb_result.kind = "children" /\ qb_props.children = "fn") =>
              /\ qb_result.arg = qb_props.query.data
              /\ qb_calls = <<"children">>

\* isEmpty false with an empty array as data: children, called with the data
C22_Witness ==
    /\ QueryNotPending
    /\ qb_props.query.isError = "false"
    /\ qb_props.query.isEmpty = "false"
    /\ qb_props.query.data = JsArray(0)
    /\ qb_props.isEmptyFn = "unset"
    /\ qb_props.children = "fn"
    /\ qb_result.kind = "children"
    /\ qb_result.arg = JsArray(0)

\* C23: the default emptiness predicate finds a data value empty exactly when
\* it is null or undefined, an array of length zero, or a plain object with
\* zero own keys; every other value, a non-empty Map among them, is not empty.
\* Seen where the predicate alone decides: no isEmptyFn, no pending, no error,
\* no isEmpty flag.
C23_DefaultEmptiness ==
    (QueryNotPending /\ qb_props.query.isError # "true"
     /\ qb_props.query.isEmpty = "unset" /\ qb_props.isEmptyFn = "unset") =>
        (qb_result.kind = "empty") =
            (qb_props.query.data \in {JsUndefined, JsNull, JsArray(0), JsObject(0)})

----------------------------------------------------------------------------
(* Repeat: claims *)

RepeatAsFor ==
    For([each |-> [t |-> "array",
                   v |-> [k \in 1..rp_props.times |-> NumberToString(k - 1)]],
         children |-> rp_props.children,
         keyExtractor |-> rp_props.keyExtractor,
         fallback |-> rp_props.fallback,
         wrapper |-> rp_props.wrapper,
         reverse |-> rp_props.reverse])

\* C25: Repeat behaves as For applied to [0, ..., times-1]: for every times,
\* keyExtractor, fallback, wrapper and reverse, the same emission order and
\* index passed to children, the same node keys, the same wrapper output and
\* the same fallback when times <= 0.
C25_RepeatIsFor ==
    (rp_result.kind # "none") =>
        /\ rp_result.kind = RepeatAsFor.result.kind
        /\ rp_result.content = RepeatAsFor.result.content
        /\ rp_result.wrapper = RepeatAsFor.result.wrapper
        /\ Len(rp_calls) = Len(RepeatAsFor.calls)
        /\ \A k \in 1..Len(rp_calls) : rp_calls[k][1] = RepeatAsFor.calls[k][2]
        /\ Len(rp_result.elements) = Len(RepeatAsFor.result.elements)
        /\ \A k \in 1..Len(rp_result.elements) :
              rp_result.elements[k].key = RepeatAsFor.result.elements[k].key

----------------------------------------------------------------------------
(* Split: claims *)

\* the concatenation of the parts, with sep between two parts
RECURSIVE SplitJoin(_, _)
SplitJoin(parts, sep) ==
    IF Len(parts) = 0 THEN <<>>
    ELSE IF Len(parts) = 1 THEN parts[1]
    ELSE parts[1] \o sep \o SplitJoin(Tail(parts), sep)

\* the separator matches the text at position q
SplitMatchesAt(text, separator, q) ==
    IF separator.t = "regexp"
    THEN RegExpMatches(text, separator, q)
    ELSE /\ q + Len(separator.chars) - 1 <= Len(text)
         /\ SubSeq(text, q, q + Len(separator.chars) - 1) = separator.chars

\* the separator occurs in the text: it matches at some position, an empty
\* separator between two characters
SplitOccursIn(text, separator) ==
    \E q \in 1..Len(text) :
        /\ SplitMatchesAt(text, separator, q)
        /\ (separator.t = "string" /\ separator.chars = <<>>) => q > 1

\* the text is one occurrence of the separator
SplitIsSeparator(text, separator) ==
    /\ SplitMatchesAt(text, separator, 1)
    /\ IF separator.t = "regexp" THEN Len(text) = Len(separator.atoms)
       ELSE Len(text) = Len(separator.chars)

SplitRendered == sp_result.kind # "none"

\* the parts handed to children, in the order of the parts
SplitEmitted ==
    LET items == [k \in 1..Len(sp_calls) |-> sp_calls[k][1]]
    IN  IF sp_props.reverse THEN Reverse(items) ELSE items

\* C26: with keepSeparator = true, a non-empty string and a non-empty
\* separator, no part is empty, every part is either one occurrence of the
\* separator or text in which the separator does not occur, and the
\* concatenation of the parts in order is the original string.
C26_KeepsEverySeparator ==
    (/\ SplitRendered
     /\ sp_props.keepSeparator = "true"
     /\ sp_props.string.t = "string" /\ sp_props.string.v # <<>>
     /\ sp_props.separator.t = "string" => sp_props.separator.chars # <<>>) =>
        /\ \A k \in 1..Len(sp_parts) :
              /\ sp_parts[k] # <<>>
              /\ \/ SplitIsSeparator(sp_parts[k], sp_props.separator)
                 \/ ~SplitOccursIn(sp_parts[k], sp_props.separator)
        /\ SplitJoin(sp_parts, <<>>) = sp_props.string.v
        /\ SplitEmitted = sp_parts

\* the same for the literal separators and the patterns without a capture
\* group of their own
C26_WithoutGroups ==
    sp_props.separator.groups = 0 => C26_KeepsEverySeparator

\* C27: with keepSeparator = false or unset For receives the standard split of
\* the string on the separator; for a literal separator the separator occurs
\* in no part and joining the parts with it gives the original string; a null,
\* undefined or empty string gives no parts, and For returns the fallback.
C27_StandardSplit ==
    (SplitRendered /\ sp_props.keepSeparator # "true") =>
        /\ SplitEmitted = sp_parts
        /\ (sp_props.string.t = "string" /\ sp_props.string.v # <<>>
               /\ sp_props.separator.t = "string") =>
              /\ \A k \in 1..Len(sp_parts) :
                    ~SplitOccursIn(sp_parts[k], sp_props.separator)
              /\ SplitJoin(sp_parts, sp_props.separator.chars) = sp_props.string.v
              /\ sp_result.kind # "fallback"
        /\ (sp_props.string.t # "string" \/ sp_props.string.v = <<>>) =>
              /\ sp_parts = <<>>
              /\ sp_calls = <<>>
              /\ sp_result.kind = "fallback"
              /\ sp_result.content = IF sp_props.fallback = "unset" THEN "null"
                                     ELSE sp_props.fallback

\* "a.a" split on "." without keepSeparator: two parts
C27_Witness ==
    /\ SplitRendered
    /\ sp_props.keepSeparator = "unset"
    /\ sp_props.string.v = <<"a", ".", "a">>
    /\ sp_props.separator.chars = <<".">>
    /\ sp_parts = <<<<"a">>, <<"a">>>>

----------------------------------------------------------------------------
(* Missing input: claims *)

\* the props of For with a null or undefined collection
ForMissingEach ==
    [each : {e \in ForEachValues : e.t # "array"},
     children : {"keyed", "unkeyed", "text"},
     keyExtractor : {"none", "byItem", "byIndex"},
     fallback : {"unset", "EmptyState"},
     wrapper : {"none", "ul", "notElement"},
     reverse : BOOLEAN]

\* the props of Split with a null or undefined string
SplitMissingString ==
    [string : {[t |-> "null", v |-> <<>>], [t |-> "undefined", v |-> <<>>]},
     separator : SplitSeparators,
     keepSeparator : {"unset", "true", "false"},
     fallback : {"unset", "EmptyState"},
     wrapper : {"none", "ul"},
     reverse : BOOLEAN]

\* the props of QueryBoundary with a null or undefined query
QueryMissing ==
    [query : {q \in QueryValues : q.t # "object"},
     when : QueryFlags,
     loading : {"unset", "node", "fn"},
     error : {"unset", "node", "fn"},
     empty : {"unset", "node", "fn"},
     children : {"node", "fn"},
     isEmptyFn : {"unset", "never"}]

\* null when no fallback is given
FallbackOrNull(fallback) == IF fallback = "unset" THEN "null" ELSE fallback

\* C28: For with a null or undefined collection and Split with a null or
\* undefined string return the fallback (nothing without one) and invoke
\* nothing; QueryBoundary with an absent query returns nothing and invokes
\* nothing; Dynamic with a falsy component returns the fallback (the result of
\* a fallback function, nothing without one); Dynamic with any other component
\* returns an element of that component whose props are the props given
\* without component and fallback.
C28_MissingInputDegrades ==
    /\ \A props \in ForMissingEach :
          /\ For(props).result.kind = "fallback"
          /\ For(props).result.content = FallbackOrNull(props.fallback)
          /\ For(props).result.elements = <<>>
          /\ For(props).calls = <<>> /\ For(props).keyCalls = <<>>
    /\ \A props \in SplitMissingString :
          /\ Split(props).result.kind = "fallback"
          /\ Split(props).result.content = FallbackOrNull(props.fallback)
          /\ Split(props).result.elements = <<>>
          /\ Split(props).calls = <<>>
    /\ \A props \in QueryMissing :
          /\ QueryBoundary(props).result.kind = "nothing"
          /\ QueryBoundary(props).result.content = "null"
          /\ QueryBoundary(props).calls = <<>>
    /\ (dy_result.kind # "none") =>
          IF dy_props.component \in {JsNull, JsUndefined, JsBoolean(FALSE)}
          THEN /\ dy_result.kind = "fallback"
               /\ dy_result.content = FallbackOrNull(dy_props.fallback)
               /\ dy_result.props = {}
               /\ dy_calls = IF dy_props.fallback = "fn" THEN <<"fn">> ELSE <<>>
          ELSE /\ dy_result.kind = "element"
               /\ dy_result.type = dy_props.component
               /\ dy_result.props = dy_props.names
               /\ dy_result.props \cap {"component", "fallback"} = {}
               /\ dy_calls = <<>>

\* a tag name with a fallback and two other props: the element gets the two
C28_Witness ==
    /\ dy_result.kind = "element"
    /\ dy_props.component = JsString(1)
    /\ dy_props.fallback = "node"
    /\ dy_props.names = {"href", "children"}
    /\ dy_result.props = {"href", "children"}

----------------------------------------------------------------------------
(* ClientOnly: claims *)

\* C29 (step part): a render pass made before the mount effect has run, a
\* server render included, returns the fallback and does not invoke children;
\* a render pass made after the mount effect has run returns children, the
\* result of the function when children is a function; once children have
\* been returned no later pass returns the fallback.
C29_RenderPass ==
    /\ (co_passes' # co_passes /\ ~co_effectRan) =>
          /\ co_rendered'.kind = "fallback"
          /\ co_rendered'.content = IF co_props'.fallback = "unset" THEN "null"
                                    ELSE co_props'.fallback
          /\ \A k \in 1..Len(co_calls') : co_calls'[k] # "children"
    /\ (co_passes' # co_passes /\ co_effectRan) =>
          /\ co_rendered'.kind = "children"
          /\ co_rendered'.content = co_props'.children
          /\ co_calls' = IF co_props'.children = "fn" THEN <<"children">> ELSE <<>>
    /\ co_rendered.kind = "children" => co_rendered'.kind = "children"

\* C29: ClientOnly returns the fallback in every render pass before its mount
\* effect has run and children in every render pass after it, and never
\* returns to the fallback.
C29_ChildrenAfterMountEffect == [][C29_RenderPass]_vars

\* rendered on the server, hydrated, and after the mount effect a pass has
\* returned the result of the children function
C29_Witness ==
    /\ co_phase = "mounted"
    /\ co_effectRan
    /\ co_isClient
    /\ co_passes = 3
    /\ co_props.children = "fn"
    /\ co_rendered = [kind |-> "children", content |-> "fn"]
    /\ co_calls = <<"children">>

----------------------------------------------------------------------------
(* Timeout: one timer at a time *)

\* C30 (state part): only the timer scheduled last can be pending, so at most
\* one is, and none is once the instance is unmounted and its cleanup has run
C30_OnlyLatestPending ==
    /\ \A i \in DOMAIN tm_timers : tm_timers[i].pending => i = Len(tm_timers)
    /\ Cardinality({i \in DOMAIN tm_timers : tm_timers[i].pending}) <= 1
    /\ (tm_phase = "unmounted" /\ ~tm_effectPending) =>
          {i \in DOMAIN tm_timers : tm_timers[i].pending} = {}

\* C30 (step part): the step that schedules a new timer leaves no earlier timer
\* pending, and a step in which a timer fires (the ready state is toggled, an
\* onTimeout is invoked) fires the timer scheduled last, with the onTimeout
\* that timer was scheduled with
C30_SupersededNeverFires ==
    /\ Len(tm_timers') > Len(tm_timers) =>
          \A i \in DOMAIN tm_timers : ~tm_timers'[i].pending
    /\ (tm_fired' # tm_fired \/ tm_toggles' > tm_toggles \/ tm_calls' # tm_calls) =>
          /\ Len(tm_timers) > 0
          /\ tm_timers[Len(tm_timers)].pending
          /\ ~tm_timers'[Len(tm_timers)].pending
          /\ \A i \in 1..(Len(tm_timers) - 1) : tm_timers'[i] = tm_timers[i]
          /\ tm_calls' # tm_calls => tm_timers[Len(tm_timers)].onTimeout # "none"

\* C30: a Timeout instance has at most one pending timer at every moment; the
\* cleanup cancels the pending timer before the next one is scheduled, a timer
\* that has been superseded by a newer one never fires, and after unmount no
\* timer is pending.
C30_OneTimer ==
    /\ []C30_OnlyLatestPending
    /\ [][C30_SupersededNeverFires]_vars

\* onTimeout changed from g1 to g2 before the first timer fired: the first
\* timer was cancelled and only the second has fired
C30_Witness ==
    /\ tm_phase = "mounted"
    /\ ~tm_effectPending
    /\ Len(tm_timers) = 2
    /\ tm_timers[1].onTimeout = "g1"
    /\ tm_timers[2].onTimeout = "g2"
    /\ ~tm_timers[1].pending
    /\ ~tm_timers[2].pending
    /\ tm_fired = 1
    /\ tm_calls = 1

====
